---- MODULE Spec2Model ----
(***************************************************************************)
(* Model of the authentication/session core (app/services/auth_service.py, *)
(* app/repositories/*.py, app/core/security.py, app/core/database.py) and  *)
(* of the stock adjustment of app/services/product_service.py.             *)
(*                                                                         *)
(* Every request runs in its own database transaction (get_db): it sees    *)
(* the committed rows and its own uncommitted writes (PostgreSQL READ      *)
(* COMMITTED), an UPDATE waits for a row another open transaction has      *)
(* written and re-evaluates its WHERE clause afterwards, the writes become *)
(* visible at commit and are undone when the handler raises.  One action   *)
(* is one database round trip of a handler together with the Python code   *)
(* that runs up to the next round trip.                                    *)
(***************************************************************************)
EXTENDS Integers, Sequences, FiniteSets, TLC

----------------------------------------------------------------------------
(* Bounds of the model *)

\* number of token pairs that may be issued in one behaviour
MaxTokens == 2
\* the same, where one refresh token is rotated a second time
MaxRotationTokens == 3
\* the clock stops after this many days
MaxDays == 8
\* number of distinct bcrypt salts
MaxSalt == 1
\* number of users rows
MaxUsers == 4
\* number of categories rows, and of update_category calls in one behaviour
MaxCategories == 3
MaxCategoryUpdates == 3
MaxProducts == 3

----------------------------------------------------------------------------
(* Program constants *)

REFRESH_TOKEN_EXPIRE_DAYS == 7
ACCESS_TOKEN_EXPIRE_MINUTES == 15
BCRYPT_MAX_BYTES == 72
MINUTES_PER_DAY == 1440

HTTP_200_OK == 200
HTTP_201_CREATED == 201
HTTP_400_BAD_REQUEST == 400
HTTP_401_UNAUTHORIZED == 401
HTTP_403_FORBIDDEN == 403
HTTP_404_NOT_FOUND == 404
HTTP_409_CONFLICT == 409
HTTP_500_INTERNAL_SERVER_ERROR == 500

REFRESH_TOKEN_SECRET == "REFRESH_TOKEN_SECRET"
SECRET_KEY == "SECRET_KEY"
ALGORITHM == "HS256"
TOKEN_ISSUER == "fastapi-shop"

----------------------------------------------------------------------------
(* Input domains *)

\* concurrent requests (each with its own AsyncSession)
Reqs == {"r1", "r2"}
\* the "no transaction" marker of xmin / xrev / xlock; also the committed view
NoTx == "committed"

\* uuid.UUID(hex) and str(uuid)
UUID(hex) == [uuid |-> hex]
str(id) == id.uuid

\* ids of the users rows; UUID("u9") is the id of no row
UserIds == {UUID("u1"), UUID("u2")}
AnyUserIds == UserIds \cup {UUID("u9")}
\* the ids uuid.uuid4() gives to the users that register, in order
NewUserIds == <<UUID("u3"), UUID("u4"), UUID("u5")>>
\* UserRole.CUSTOMER
CUSTOMER == "customer"
Emails == {"a@x.com", "b@x.com", "c@x.com"}
\* passwords accepted by validate_password_strength (>= 8 chars, A-Z, a-z, 0-9)
Passwords == {"Passw0rd1", "Passw0rd2"}
\* a password of 37 characters that take two bytes each in UTF-8
AccentedPassword == "ééééééééééééééééééééééééééééééééééééé"
\* a password of 83 ASCII characters: RegisterRequest and UserPasswordChange set
\* min_length = 8 and no max_length
LongPassword == "Aa1xxxxxxxxxxxxxxxxxxxxxxxxxxxxxxxxxxxxxxxxxxxxxxxxxxxxxxxxxxxxxxxxxxxxxxxxxxxxxxxxxxxx"
\* the passwords register is called with
RegisterPasswords == Passwords \cup {LongPassword, AccentedPassword}
\* what a client may type into the login form / old_password field
TypedPasswords == Passwords \cup {""}
Salts == 1..MaxSalt

None == [none |-> TRUE]

\* the values a JWT claim may hold: a string, a number, null, or no claim
JsonStr(s) == [str |-> s]
JsonInt(n) == [int |-> n]
Missing == [missing |-> TRUE]
IsJsonStr(v) == DOMAIN v = {"str"}
\* the hex strings uuid.UUID accepts
UuidHexes == {"u1", "u2", "u3", "u4", "u5", "u9"}
\* what a client that holds the signing secret may put into `sub`
BadSubs == {Missing, None, JsonInt(12345), JsonStr("not-a-valid-uuid")}
NoPending ==
    [set_password |-> FALSE, hashed_password |-> None, set_deleted |-> FALSE,
     columns |-> {}, is_active |-> FALSE, first_name |-> "", delete |-> FALSE]
NoCtx == [user_id |-> None, user |-> None, inserted |-> None, body |-> None, obs |-> None, pre |-> {}, snap |-> None]

\* ids of the products rows; UUID("p9") is the id of no row
ProductIds == {UUID("p1")}
AnyProductIds == ProductIds \cup {UUID("p9")}
\* the ids uuid.uuid4() gives to the products that are created, in order
NewProductIds == <<UUID("p2"), UUID("p3"), UUID("p4")>>
NoPendingStock == [set |-> FALSE, stock_quantity |-> 0, set_deleted |-> FALSE,
                   cols |-> {}, slug |-> "", sku |-> None]

----------------------------------------------------------------------------
VARIABLES
    now,            \* wall clock, in minutes
    users,          \* table users: id -> row (with the open transaction's version)
    tokens,         \* table refresh_tokens: set of rows
    nextId,         \* number of uuid4-identified token pairs created so far
    quota,          \* number of token pairs this behaviour may create
    pc,             \* per request: position in its handler
    req,            \* per request: operation and arguments
    ctx,            \* per request: locals of the handler
    response,       \* the response returned by the step just taken, None if it returned none
    issued,         \* tokens handed to clients
    rotCount,       \* history: refresh token -> number of successful refresh_tokens calls on it
    pwHist,         \* history: user -> last committed change_password and the sessions it has seen
    loggedOutAll,   \* history: user -> the sessions a committed logout_all_devices has seen
    products,       \* table products: id -> row (with the open transaction's version)
    stock0,         \* history: stock_quantity before the first adjustment
    calls,          \* history: the stock adjustments that have responded, in order
    categories,     \* table categories: id -> row
    updates         \* number of update_category calls so far

categoryVars == <<categories, updates>>
sessionVars == <<now, users, tokens, nextId, issued, rotCount, pwHist, loggedOutAll, categoryVars>>
stockVars == <<products, stock0, calls, categoryVars>>
vars == <<now, users, tokens, nextId, quota, pc, req, ctx, response, issued, rotCount, pwHist,
          loggedOutAll, products, stock0, calls, categories, updates>>

----------------------------------------------------------------------------
(* app/core/security.py *)

\* len(password.encode("utf-8")): one byte for each character of an ASCII
\* password, two for each character of the accented one
utf8_len(password) ==
    IF password = AccentedPassword THEN 2 * 37 ELSE Len(password)

\* TRUE iff _ensure_password_length returns; it raises ValueError otherwise
_ensure_password_length(password) == utf8_len(password) <= BCRYPT_MAX_BYTES

ValueError(message) == [exception |-> "ValueError", message |-> message]

\* _ensure_password_length(password) raises on more than 72 bytes; otherwise
\* bcrypt.hashpw(password, salt): the salt is part of the hash string
hash_password(password, salt) ==
    IF ~_ensure_password_length(password)
    THEN ValueError("password cannot be longer than 72 bytes, truncate manually if necessary")
    ELSE [alg |-> "bcrypt", salt |-> salt, digest |-> <<salt, password>>]

\* hash_password raises
Raises(hashed) == DOMAIN hashed = {"exception", "message"}

\* a check that accepts every password
verify_password_Always(plain_password, hashed_password) == TRUE

verify_password(plain_password, hashed_password) ==
    /\ plain_password # ""
    /\ _ensure_password_length(plain_password)
    /\ hashed_password.digest = <<hashed_password.salt, plain_password>>

create_access_token(sub, jti) ==
    [key |-> SECRET_KEY, alg |-> ALGORITHM, type |-> "access", sub |-> sub,
     exp |-> now + ACCESS_TOKEN_EXPIRE_MINUTES, iat |-> now,
     iss |-> JsonStr(TOKEN_ISSUER), jti |-> jti]

\* a refresh token signed with the secret of the access tokens
create_refresh_token_AccessSecret(sub, jti) ==
    [key |-> SECRET_KEY, alg |-> ALGORITHM, type |-> "refresh", sub |-> sub,
     exp |-> now + REFRESH_TOKEN_EXPIRE_DAYS * MINUTES_PER_DAY, iat |-> now,
     iss |-> JsonStr(TOKEN_ISSUER), jti |-> jti]

create_refresh_token(sub, jti) ==
    [key |-> REFRESH_TOKEN_SECRET, alg |-> ALGORITHM, type |-> "refresh", sub |-> sub,
     exp |-> now + REFRESH_TOKEN_EXPIRE_DAYS * MINUTES_PER_DAY, iat |-> now,
     iss |-> JsonStr(TOKEN_ISSUER), jti |-> jti]

\* a decoder that is given issuer=TOKEN_ISSUER
decode_access_token_VerifyIssuer(token) ==
    /\ token.key = SECRET_KEY
    /\ token.alg = ALGORITHM
    /\ token.exp > now
    /\ token.iat <= now
    /\ token.iss = JsonStr(TOKEN_ISSUER)
    /\ (token.sub = Missing \/ IsJsonStr(token.sub))

\* jwt.decode(token, SECRET_KEY, algorithms=[ALGORITHM]): TRUE iff it does not
\* raise (signature, exp, iat are verified; no issuer is passed, so `iss` is
\* not looked at; `type` is no registered claim; a `sub` claim that is
\* present must be a string)
decode_access_token(token) ==
    /\ token.key = SECRET_KEY
    /\ token.alg = ALGORITHM
    /\ token.exp > now
    /\ token.iat <= now
    /\ (token.sub = Missing \/ IsJsonStr(token.sub))

\* a decoder that does not verify exp (verify_exp = False)
decode_refresh_token_NoExp(token) ==
    /\ token.key = REFRESH_TOKEN_SECRET
    /\ token.alg = ALGORITHM
    /\ token.iat <= now
    /\ (token.sub = Missing \/ IsJsonStr(token.sub))

\* jwt.decode(token, REFRESH_TOKEN_SECRET, algorithms=[ALGORITHM]): TRUE iff it
\* does not raise (signature, exp, iat are verified; no issuer is passed; a
\* `sub` claim that is present must be a string)
decode_refresh_token(token) ==
    /\ token.key = REFRESH_TOKEN_SECRET
    /\ token.alg = ALGORITHM
    /\ token.exp > now
    /\ token.iat <= now
    /\ (token.sub = Missing \/ IsJsonStr(token.sub))

\* uuid.UUID(payload.get("sub")) returns: it raises TypeError on None (no
\* claim) and ValueError on a badly formed hexadecimal string
uuid_UUID_returns(sub) == IsJsonStr(sub) /\ sub.str \in UuidHexes

\* a fingerprint of the subject alone: the tokens of one user collide
hash_refresh_token_OfSubject(token) == [sha256 |-> token.sub]

\* hashlib.sha256(token).hexdigest(): one-way, collision-free
hash_refresh_token(token) == [sha256 |-> token]


----------------------------------------------------------------------------
(* Errors raised by the services *)

HTTPException(status_code, detail) == [status_code |-> status_code, detail |-> detail]

IncorrectEmailOrPassword == HTTPException(HTTP_401_UNAUTHORIZED, "Incorrect email or password")
AccountIsInactive == HTTPException(HTTP_403_FORBIDDEN, "Account is inactive")
InvalidRefreshToken == HTTPException(HTTP_401_UNAUTHORIZED, "Invalid refresh token")
RefreshTokenExpiredOrRevoked ==
    HTTPException(HTTP_401_UNAUTHORIZED, "Refresh token expired or revoked")
UserNotFound == HTTPException(HTTP_404_NOT_FOUND, "User not found")
IncorrectOldPassword == HTTPException(HTTP_401_UNAUTHORIZED, "Incorrect old password")
FailedToDeleteUser == HTTPException(HTTP_500_INTERNAL_SERVER_ERROR, "Failed to delete user")
\* an exception that is no HTTPException leaves the handler: the server answers 500
InternalServerError == HTTPException(HTTP_500_INTERNAL_SERVER_ERROR, "Internal Server Error")
\* main.py integrity_error_handler: an IntegrityError is answered with 409
IntegrityConflict ==
    HTTPException(HTTP_409_CONFLICT, "Database integrity constraint violation")

----------------------------------------------------------------------------
(* The database as transaction r sees it; r = NoTx is the committed state *)

\* a users row as r sees it
UserRow(r, u) ==
    LET mine == users[u].xlock = r /\ r # NoTx
    IN  [email |-> users[u].email,
         hashed_password |-> IF mine /\ users[u].pending.set_password
                             THEN users[u].pending.hashed_password
                             ELSE users[u].hashed_password,
         first_name |-> IF mine /\ "first_name" \in users[u].pending.columns
                        THEN users[u].pending.first_name
                        ELSE users[u].first_name,
         role |-> users[u].role,
         is_active |-> IF mine /\ "is_active" \in users[u].pending.columns
                       THEN users[u].pending.is_active
                       ELSE users[u].is_active,
         is_verified |-> users[u].is_verified,
         is_deleted |-> users[u].is_deleted \/ (mine /\ users[u].pending.set_deleted)]

\* refresh_tokens rows r sees: the committed ones and those it inserted
VisibleTokens(r) ==
    {t \in tokens : (t.xmin = NoTx \/ t.xmin = r) /\ ~(t.xrev = r /\ t.pending = "delete")}

\* is_revoked of a row as r sees it
IsRevoked(r, t) == t.is_revoked \/ (t.xrev = r /\ r # NoTx /\ t.pending = "revoke")

\* is_deleted of a row as r sees it
IsDeleted(r, t) == t.is_deleted \/ (t.xrev = r /\ r # NoTx /\ t.pending = "soft_delete")

\* users rows r sees: all but those it has deleted
VisibleUsers(r) ==
    {u \in DOMAIN users : ~(users[u].xlock = r /\ r # NoTx /\ users[u].pending.delete)}

\* a lookup that also returns the soft-deleted users
user_get_by_id_IncludeDeleted(r, id) == {u \in VisibleUsers(r) : u = id}

\* BaseRepository.get_by_id on users, include_deleted = False
user_get_by_id(r, id) == {u \in VisibleUsers(r) : u = id /\ ~UserRow(r, u).is_deleted}

\* the ORM's UPDATE users ... WHERE id = :id waits for the row's writer
UserRowLocked(r, u) == users[u].xlock # NoTx /\ users[u].xlock # r

\* a lookup that also returns soft-deleted users (include_deleted = True)
get_by_email_IncludeDeleted(r, email) == {u \in VisibleUsers(r) : UserRow(r, u).email = email}

\* UserRepository.get_by_email, include_deleted = False
get_by_email(r, email) ==
    {u \in VisibleUsers(r) : UserRow(r, u).email = email /\ ~UserRow(r, u).is_deleted}

\* UserRepository.email_exists, exclude_user_id = None
email_exists(r, email) ==
    \E u \in VisibleUsers(r) : UserRow(r, u).email = email /\ ~UserRow(r, u).is_deleted

\* a users table without the unique index on email
UniqueViolation_NoIndex(email) == FALSE

\* the unique index on users.email (unique=True): it covers every row, the
\* soft-deleted ones too
UniqueViolation(email) == \E u \in DOMAIN users : users[u].email = email

\* a column default that makes new accounts inactive
NewUser_Inactive(email, hashed_password) ==
    [email |-> email, hashed_password |-> hashed_password, first_name |-> "Test",
     role |-> CUSTOMER, is_active |-> FALSE, is_verified |-> FALSE, is_deleted |-> FALSE,
     xlock |-> NoTx, pending |-> NoPending]

\* User(email=..., hashed_password=...): the other columns take their defaults
NewUser(email, hashed_password) ==
    [email |-> email, hashed_password |-> hashed_password, first_name |-> "Test",
     role |-> CUSTOMER, is_active |-> TRUE, is_verified |-> FALSE, is_deleted |-> FALSE,
     xlock |-> NoTx, pending |-> NoPending]

\* a lookup that also returns revoked rows (include_revoked = True)
get_by_token_hash_IncludeRevoked(r, token_hash) ==
    {t \in VisibleTokens(r) : t.token_hash = token_hash /\ ~IsDeleted(r, t)}

\* RefreshTokenRepository.get_by_token_hash, include_revoked = include_deleted = False
get_by_token_hash(r, token_hash) ==
    {t \in VisibleTokens(r) :
        t.token_hash = token_hash /\ ~IsRevoked(r, t) /\ ~IsDeleted(r, t)}

\* a check that still accepts a record at the instant it expires
is_token_valid_AtExpiry(r, token_hash) ==
    \E t \in VisibleTokens(r) :
        /\ t.token_hash = token_hash
        /\ ~IsRevoked(r, t)
        /\ ~IsDeleted(r, t)
        /\ t.expires_at >= now

\* RefreshTokenRepository.is_token_valid
is_token_valid(r, token_hash) ==
    \E t \in VisibleTokens(r) :
        /\ t.token_hash = token_hash
        /\ ~IsRevoked(r, t)
        /\ ~IsDeleted(r, t)
        /\ t.expires_at > now

\* an UPDATE without the condition is_revoked = false
RevokeTokenRows_IncludeRevoked(r, token_hash) ==
    {t \in VisibleTokens(r) : t.token_hash = token_hash /\ ~IsDeleted(r, t)}

\* rows matched by the UPDATE of revoke_token
RevokeTokenRows(r, token_hash) ==
    {t \in VisibleTokens(r) :
        t.token_hash = token_hash /\ ~IsDeleted(r, t) /\ ~IsRevoked(r, t)}

\* an UPDATE that revokes the newest session record of the user only
RevokeAllRows_NewestOnly(r, user_id) ==
    LET rows == {t \in VisibleTokens(r) :
                    t.user_id = user_id /\ ~IsDeleted(r, t) /\ ~IsRevoked(r, t)}
    IN  {t \in rows : \A x \in rows : x.id <= t.id}

\* rows matched by the UPDATE of revoke_all_user_tokens
RevokeAllRows(r, user_id) ==
    {t \in VisibleTokens(r) :
        t.user_id = user_id /\ ~IsDeleted(r, t) /\ ~IsRevoked(r, t)}

\* The UPDATE reads the rows of the snapshot taken when the statement began;
\* after a wait it re-checks its WHERE clause on those rows only.
Snapshot(rows) == {t.id : t \in rows}
RecheckedRows(r, user_id, snap) == {t \in RevokeAllRows(r, user_id) : t.id \in snap}

\* an UPDATE waits while a row it matches is written by another open transaction
MustWait(r, rows) == \E t \in rows : t.xrev # NoTx /\ t.xrev # r

\* an UPDATE without its WHERE clause: it revokes the rows of every user
SetRevoked_Everyone(r, rows) ==
    {IF rows # {} /\ ~t.is_revoked THEN [t EXCEPT !.xrev = r, !.pending = "revoke"] ELSE t :
        t \in tokens}

\* the UPDATE ... SET is_revoked = true on `rows`, uncommitted
SetRevoked(r, rows) ==
    {IF t \in rows THEN [t EXCEPT !.xrev = r, !.pending = "revoke"] ELSE t : t \in tokens}

\* the UPDATE ... SET is_deleted = true on `rows`, uncommitted
SetSoftDeleted(r, rows) ==
    {IF t \in rows THEN [t EXCEPT !.xrev = r, !.pending = "soft_delete"] ELSE t : t \in tokens}

\* the DELETE of `rows`, uncommitted
SetDeleted(r, rows) ==
    {IF t \in rows THEN [t EXCEPT !.xrev = r, !.pending = "delete"] ELSE t : t \in tokens}

\* session.commit(): r's versions become the committed ones
CommitTokens(r) ==
    {[t EXCEPT !.xmin = NoTx,
               !.is_revoked = t.is_revoked \/ (t.xrev = r /\ t.pending = "revoke"),
               !.is_deleted = t.is_deleted \/ (t.xrev = r /\ t.pending = "soft_delete"),
               !.xrev = IF t.xrev = r THEN NoTx ELSE t.xrev,
               !.pending = IF t.xrev = r THEN "none" ELSE t.pending] :
        t \in {x \in tokens : (x.xmin = r \/ x.xrev = r)
                                 /\ ~(x.xrev = r /\ x.pending = "delete")}}
    \cup {x \in tokens : x.xmin # r /\ x.xrev # r}

\* the rows r has deleted are gone
CommitUsers(r) ==
    [u \in VisibleUsers(r) |->
        IF users[u].xlock = r
        THEN [users[u] EXCEPT !.hashed_password = UserRow(r, u).hashed_password,
                              !.first_name = UserRow(r, u).first_name,
                              !.is_active = UserRow(r, u).is_active,
                              !.is_deleted = UserRow(r, u).is_deleted,
                              !.xlock = NoTx,
                              !.pending = NoPending]
        ELSE users[u]]

\* session.rollback(): r's versions are dropped
\* an end of request that keeps what the request has written
RollbackTokens_Keep(r) == CommitTokens(r)

RollbackTokens(r) ==
    {[t EXCEPT !.xrev = IF t.xrev = r THEN NoTx ELSE t.xrev,
               !.pending = IF t.xrev = r THEN "none" ELSE t.pending] :
        t \in {x \in tokens : x.xmin # r}}

RollbackUsers(r) ==
    [u \in DOMAIN users |->
        IF users[u].xlock = r
        THEN [users[u] EXCEPT !.xlock = NoTx, !.pending = NoPending]
        ELSE users[u]]


----------------------------------------------------------------------------
(* Initial state: two registered users, no session records *)

InitUsers(active2) ==
    [u \in UserIds |->
        IF u = UUID("u1")
        THEN [email |-> "a@x.com",
              hashed_password |-> hash_password("Passw0rd1", 1),
              first_name |-> "Test",
              role |-> CUSTOMER, is_active |-> TRUE, is_verified |-> FALSE,
              is_deleted |-> FALSE,
              xlock |-> NoTx, pending |-> NoPending]
        ELSE [email |-> "b@x.com",
              hashed_password |-> hash_password("Passw0rd2", 1),
              first_name |-> "Test",
              role |-> CUSTOMER, is_active |-> active2, is_verified |-> FALSE,
              is_deleted |-> FALSE,
              xlock |-> NoTx, pending |-> NoPending]]

InitSessions(active) ==
    /\ now = 0
    /\ users = InitUsers(active)
    /\ tokens = {}
    /\ nextId = 0
    /\ issued = {}
    /\ rotCount = <<>>
    /\ pwHist = [u \in UserIds |-> None]
    /\ loggedOutAll = [u \in UserIds |-> {}]

InitRequests ==
    /\ pc = [r \in Reqs |-> "idle"]
    /\ req = [r \in Reqs |-> None]
    /\ ctx = [r \in Reqs |-> NoCtx]
    /\ response = None

\* one product with the given stock_quantity
InitCategories ==
    /\ categories = <<>>
    /\ updates = 0

InitProducts(stock_quantity, is_deleted) ==
    /\ products = [p \in ProductIds |->
                     [slug |-> "p1", sku |-> None,
                      stock_quantity |-> stock_quantity, is_deleted |-> is_deleted,
                      xmin |-> NoTx, xlock |-> NoTx, pending |-> NoPendingStock]]
    /\ stock0 = stock_quantity
    /\ calls = <<>>

Init ==
    /\ \E active \in BOOLEAN : InitSessions(active)
    /\ quota = MaxTokens
    /\ InitRequests
    /\ InitProducts(0, FALSE)
    /\ InitCategories

----------------------------------------------------------------------------
(* Requests: begin, raise, return *)

\* the request slots are interchangeable, so a request takes the first free one
Free(r) == pc[r] = "idle"
Earlier(r) == IF r = "r2" THEN {"r1"} ELSE {}
MayBegin(r) == Free(r) /\ \A q \in Earlier(r) : ~Free(q)

\* requests that will still insert a session record
Issuing == {r \in Reqs : pc[r] \in {"login_create", "refresh_is_valid",
                                     "refresh_revoke", "refresh_create",
                                     "register_create", "register_tokens"}}
CanIssue == nextId + Cardinality(Issuing) < quota

Goto(r, label, request, context) ==
    /\ pc' = [pc EXCEPT ![r] = label]
    /\ req' = [req EXCEPT ![r] = request]
    /\ ctx' = [ctx EXCEPT ![r] = context]
    /\ response' = None

\* the committed part of a refresh_tokens table
Committed(table) == {x \in table : x.xmin = NoTx}
CommittedIds(table) == {t.id : t \in Committed(table)}
RevokedIds(table) == {t.id : t \in {x \in Committed(table) : x.is_revoked}}
ValidHashes(table) ==
    {t.token_hash : t \in {x \in Committed(table) :
                              ~x.is_revoked /\ ~x.is_deleted /\ x.expires_at > now}}

\* the columns of a refresh_tokens row
SessionRecord(t) ==
    [id |-> t.id, token_hash |-> t.token_hash, user_id |-> t.user_id,
     expires_at |-> t.expires_at, is_revoked |-> t.is_revoked, is_deleted |-> t.is_deleted]
\* the committed session records
SessionRecords(table) == {SessionRecord(t) : t \in Committed(table)}

\* the columns of a users row
UserColumns(user) ==
    [email |-> user.email, hashed_password |-> user.hashed_password,
     first_name |-> user.first_name,
     is_active |-> user.is_active, is_deleted |-> user.is_deleted]
\* the session records with a revocation that is not committed yet
PendingRevocations(table) ==
    {t.id : t \in {x \in table : x.xrev # NoTx /\ x.pending = "revoke" /\ ~x.is_revoked}}

\* the response, with what the request has changed in the committed tables
Response(op, status_code, detail, body, obs) ==
    [op |-> op, status_code |-> status_code, detail |-> detail,
     body |-> body, obs |-> obs,
     registered |-> DOMAIN users' \ DOMAIN users,
     created |-> CommittedIds(tokens') \ CommittedIds(tokens),
     flipped |-> RevokedIds(tokens') \ RevokedIds(tokens),
     touched |-> {t.id : t \in SessionRecords(tokens) \ SessionRecords(tokens')},
     changed_users |-> {u \in DOMAIN users : UserColumns(users'[u]) # UserColumns(users[u])},
     undone |-> PendingRevocations(tokens)
                  \ (PendingRevocations(tokens') \cup RevokedIds(tokens')),
     valid_after |-> ValidHashes(tokens')]

\* the handler raises: get_db rolls the session back and the error is returned
Raise(r, op, exc, obs) ==
    /\ tokens' = RollbackTokens(r)
    /\ users' = RollbackUsers(r)
    /\ pc' = [pc EXCEPT ![r] = "idle"]
    /\ req' = [req EXCEPT ![r] = None]
    /\ ctx' = [ctx EXCEPT ![r] = NoCtx]
    /\ response' = Response(op, exc.status_code, exc.detail, None, obs)

\* the handler returns: get_db commits the session
Return(r, body) ==
    /\ tokens' = CommitTokens(r)
    /\ users' = CommitUsers(r)
    /\ pc' = [pc EXCEPT ![r] = "idle"]
    /\ req' = [req EXCEPT ![r] = None]
    /\ ctx' = [ctx EXCEPT ![r] = NoCtx]
    /\ response' = Response(req[r].op, HTTP_200_OK, "", body, ctx[r].obs)

\* the handler returns a token pair: get_db commits the session and the
\* client receives the pair
ReturnIssued(r, body) ==
    /\ Return(r, body)
    /\ issued' = issued \cup {ctx[r].body.refresh_token}

\* what a call of the repository answers when the session of its caller ends
RepositoryAnswer(r, op, result, obs) ==
    /\ pc' = [pc EXCEPT ![r] = "idle"]
    /\ req' = [req EXCEPT ![r] = None]
    /\ ctx' = [ctx EXCEPT ![r] = NoCtx]
    /\ response' = [op |-> op, result |-> result, obs |-> obs,
                    deleted |-> {t \in SessionRecords(tokens) : t.id \notin CommittedIds(tokens')},
                    changed |-> {t \in SessionRecords(tokens) :
                                    /\ t.id \in CommittedIds(tokens')
                                    /\ t \notin SessionRecords(tokens')},
                    kept |-> SessionRecords(tokens')]

\* the caller commits the session
RepositoryReturn(r, result) ==
    /\ tokens' = CommitTokens(r)
    /\ users' = CommitUsers(r)
    /\ RepositoryAnswer(r, req[r].op, result, ctx[r].obs)

\* the call raises and the caller rolls the session back
RepositoryRaise(r, exception) ==
    /\ tokens' = RollbackTokens(r)
    /\ users' = RollbackUsers(r)
    /\ RepositoryAnswer(r, req[r].op, [exception |-> exception], ctx[r].obs)

\* a session record that holds the fingerprint of the access token
_create_tokens_for_user_HashOfAccess(r, user_id) ==
    LET n == nextId + 1
        access_token == create_access_token(JsonStr(str(user_id)), 2 * n - 1)
        refresh_token == create_refresh_token(JsonStr(str(user_id)), 2 * n)
    IN  [row |-> [id |-> n,
                  token_hash |-> hash_refresh_token(access_token),
                  user_id |-> user_id,
                  expires_at |-> now + REFRESH_TOKEN_EXPIRE_DAYS * MINUTES_PER_DAY,
                  is_revoked |-> FALSE, is_deleted |-> FALSE,
                  xmin |-> r, xrev |-> NoTx, pending |-> "none"],
         body |-> [access_token |-> access_token,
                   refresh_token |-> refresh_token,
                   token_type |-> "bearer"]]

\* AuthService._create_tokens_for_user in request r: the row it inserts,
\* uncommitted, and the pair it returns
_create_tokens_for_user(r, user_id) ==
    LET n == nextId + 1
        access_token == create_access_token(JsonStr(str(user_id)), 2 * n - 1)
        refresh_token == create_refresh_token(JsonStr(str(user_id)), 2 * n)
    IN  [row |-> [id |-> n,
                  token_hash |-> hash_refresh_token(refresh_token),
                  user_id |-> user_id,
                  expires_at |-> now + REFRESH_TOKEN_EXPIRE_DAYS * MINUTES_PER_DAY,
                  is_revoked |-> FALSE, is_deleted |-> FALSE,
                  xmin |-> r, xrev |-> NoTx, pending |-> "none"],
         body |-> [access_token |-> access_token,
                   refresh_token |-> refresh_token,
                   token_type |-> "bearer"]]

\* token_repo.create(db_token): flush emits the INSERT and refresh reads the
\* row back; the row stays uncommitted, seen by r alone, until get_db commits
\* The foreign key refresh_tokens.user_id -> users.id: the INSERT waits while
\* another open transaction is deleting the users row, and fails with an
\* IntegrityError when there is no such row (the row r has inserted counts).
ForeignKeyMustWait(r, user_id) ==
    /\ user_id \in DOMAIN users
    /\ UserRowLocked(r, user_id)
    /\ users[user_id].pending.delete
ForeignKeyViolation(r, user_id) ==
    /\ user_id \notin VisibleUsers(r)
    /\ ~(ctx[r].inserted # None /\ ctx[r].inserted.id = user_id)

CreateTokens(r, label) ==
    LET made == _create_tokens_for_user(r, ctx[r].user_id)
    IN  /\ ~ForeignKeyMustWait(r, ctx[r].user_id)
        /\ IF ForeignKeyViolation(r, ctx[r].user_id)
           THEN /\ Raise(r, req[r].op, IntegrityConflict, ctx[r].obs)
                /\ nextId' = nextId
           ELSE /\ tokens' = tokens \cup {made.row}
                /\ nextId' = nextId + 1
                /\ pc' = [pc EXCEPT ![r] = label]
                /\ ctx' = [ctx EXCEPT ![r].body = made.body]
                /\ response' = None
                /\ UNCHANGED <<users, req>>

----------------------------------------------------------------------------
(* AuthService.register *)

EmailAlreadyRegistered == HTTPException(HTTP_400_BAD_REQUEST, "Email already registered")

\* requests that will still commit a users row
Registering == {r \in Reqs : pc[r] \in {"register_create", "register_tokens",
                                        "register_commit"}}
CanRegister == Cardinality(DOMAIN users) + Cardinality(Registering) < MaxUsers
\* the users rows inserted by open transactions
Inserting == {r \in Reqs : pc[r] \in {"register_tokens", "register_commit"}}
\* uuid.uuid4(): an id that no row has
NewUserId ==
    LET used == DOMAIN users \cup {ctx[q].inserted.id : q \in Inserting}
        n == CHOOSE i \in 1..Len(NewUserIds) :
                /\ NewUserIds[i] \notin used
                /\ \A j \in 1..(i - 1) : NewUserIds[j] \in used
    IN  NewUserIds[n]

\* UserResponse.model_validate(user)
UserResponse(id, user) ==
    [id |-> id, email |-> user.email, first_name |-> user.first_name, role |-> user.role,
     is_active |-> user.is_active, is_verified |-> user.is_verified]

\* the case a register call is in when it begins, for the record of the
\* response; raced: a concurrent register call has taken the email since
RegisterObs(email, password) ==
    [email_taken |-> email_exists(NoTx, email),
     deleted_holder |-> \E u \in DOMAIN users : users[u].email = email /\ users[u].is_deleted,
     too_long |-> ~_ensure_password_length(password),
     raced |-> FALSE]

\* email_exists (SELECT), then User(..., hashed_password=hash_password(data.password)):
\* the ValueError of hash_password leaves the handler before anything is written
Register(r, email, password, salt) ==
    /\ MayBegin(r)
    /\ IF email_exists(r, email)
       THEN /\ Raise(r, "register", EmailAlreadyRegistered, RegisterObs(email, password))
            /\ UNCHANGED <<now, nextId, issued, rotCount, pwHist, loggedOutAll>>
       ELSE IF Raises(hash_password(password, salt))
       THEN /\ Raise(r, "register", InternalServerError, RegisterObs(email, password))
            /\ UNCHANGED <<now, nextId, issued, rotCount, pwHist, loggedOutAll>>
       ELSE /\ CanIssue
            /\ CanRegister
            /\ Goto(r, "register_create",
                    [op |-> "register", email |-> email, password |-> password,
                     hashed_password |-> hash_password(password, salt)],
                    [NoCtx EXCEPT !.obs = RegisterObs(email, password)])
            /\ UNCHANGED <<now, users, tokens, nextId, issued, rotCount, pwHist,
                           loggedOutAll>>
    /\ UNCHANGED <<quota, stockVars>>

\* the INSERT waits while the unique index on users.email cannot decide: a row
\* with the email is written, or was inserted, by another open transaction
InsertMustWait(r, email) ==
    \/ \E u \in DOMAIN users : users[u].email = email /\ UserRowLocked(r, u)
    \/ \E q \in Inserting \ {r} : ctx[q].inserted.row.email = email

\* user_repo.create(user): flush emits the INSERT into users, which fails on
\* the unique index or leaves an uncommitted row that r alone sees; refresh
\* reads the row back
RegisterCreate(r) ==
    /\ pc[r] = "register_create"
    /\ ~InsertMustWait(r, req[r].email)
    /\ IF UniqueViolation(req[r].email)
       THEN /\ Raise(r, "register", IntegrityConflict,
                     [ctx[r].obs EXCEPT !.raced = email_exists(NoTx, req[r].email)])
       ELSE LET id == NewUserId
                user == NewUser(req[r].email, req[r].hashed_password)
            IN  /\ pc' = [pc EXCEPT ![r] = "register_tokens"]
                /\ ctx' = [ctx EXCEPT ![r].user_id = id,
                                      ![r].inserted = [id |-> id, row |-> user],
                                      ![r].user = UserResponse(id, user)]
                /\ response' = None
                /\ UNCHANGED <<users, tokens, req>>
    /\ UNCHANGED <<now, nextId, issued, rotCount, pwHist, loggedOutAll>>
    /\ UNCHANGED <<quota, stockVars>>

\* tokens = await self._create_tokens_for_user(user.id, device_info)
RegisterTokens(r) ==
    /\ pc[r] = "register_tokens"
    /\ CreateTokens(r, "register_commit")
    /\ UNCHANGED <<now, issued, rotCount, pwHist, loggedOutAll>>
    /\ UNCHANGED <<quota, stockVars>>

\* the route returns {"user": user, "tokens": tokens} with 201, get_db commits
RegisterCommit(r) ==
    /\ pc[r] = "register_commit"
    /\ users' = CommitUsers(r) @@ (ctx[r].inserted.id :> ctx[r].inserted.row)
    /\ tokens' = CommitTokens(r)
    /\ issued' = issued \cup {ctx[r].body.refresh_token}
    /\ pwHist' = pwHist @@ (ctx[r].inserted.id :> None)
    /\ loggedOutAll' = loggedOutAll @@ (ctx[r].inserted.id :> {})
    /\ pc' = [pc EXCEPT ![r] = "idle"]
    /\ req' = [req EXCEPT ![r] = None]
    /\ ctx' = [ctx EXCEPT ![r] = NoCtx]
    /\ response' = Response("register", HTTP_201_CREATED, "",
                            [user |-> ctx[r].user, tokens |-> ctx[r].body],
                            ctx[r].obs)
    /\ UNCHANGED <<now, nextId, rotCount>>
    /\ UNCHANGED <<quota, stockVars>>

----------------------------------------------------------------------------
(* AuthService.login *)

\* the password a stored hash was made of
PasswordOf(hashed_password) == hashed_password.digest[2]

\* the case a login call is in when it begins, for the record of the response
LoginObs(email, password) ==
    LET found == get_by_email(NoTx, email)
        u == CHOOSE x \in found : TRUE
    IN  [no_user |-> found = {},
         user |-> IF found # {} /\ password = PasswordOf(users[u].hashed_password)
                  THEN u ELSE None,
         verified |-> IF found # {} /\ password = PasswordOf(users[u].hashed_password)
                      THEN password ELSE "",
         bad_password |-> found # {} /\ password # PasswordOf(users[u].hashed_password),
         inactive |-> found # {} /\ ~users[u].is_active,
         registered |-> found # {} /\ u \notin UserIds,
         deleted_owner |-> \E d \in DOMAIN users :
                              /\ users[d].email = email
                              /\ users[d].is_deleted
                              /\ password = PasswordOf(users[d].hashed_password),
         changed_old |-> found # {} /\ pwHist[u] # None /\ password = pwHist[u].old_password,
         changed_new |-> found # {} /\ pwHist[u] # None /\ password = pwHist[u].new_password]

\* a check that lets every account in
IsInactive_Never(r, user) == FALSE

\* if not user.is_active
IsInactive(r, user) == ~UserRow(r, user).is_active

Login(r, email, password) ==
    /\ MayBegin(r)
    /\ LET obs == LoginObs(email, password)
           found == get_by_email(r, email)
           user == CHOOSE x \in found : TRUE
       IN  IF found = {} \/ ~verify_password(password, UserRow(r, user).hashed_password)
           THEN /\ Raise(r, "login", IncorrectEmailOrPassword, obs)
                /\ UNCHANGED <<now, nextId, issued, rotCount, pwHist, loggedOutAll>>
           ELSE IF IsInactive(r, user)
           THEN /\ Raise(r, "login", AccountIsInactive, obs)
                /\ UNCHANGED <<now, nextId, issued, rotCount, pwHist, loggedOutAll>>
           ELSE /\ CanIssue
                /\ Goto(r, "login_create", [op |-> "login"],
                        [NoCtx EXCEPT !.user_id = user, !.obs = obs,
                                      !.user = UserResponse(user, users[user])])
                /\ UNCHANGED <<now, users, tokens, nextId, issued, rotCount, pwHist,
                               loggedOutAll>>
    /\ UNCHANGED <<quota, stockVars>>

\* tokens = await self._create_tokens_for_user(user.id, device_info)
LoginCreate(r) ==
    /\ pc[r] = "login_create"
    /\ CreateTokens(r, "login_commit")
    /\ UNCHANGED <<now, issued, rotCount, pwHist, loggedOutAll>>
    /\ UNCHANGED <<quota, stockVars>>

\* the route returns {"user": user, "tokens": tokens}, get_db commits
LoginCommit(r) ==
    /\ pc[r] = "login_commit"
    /\ ReturnIssued(r, [user |-> ctx[r].user, tokens |-> ctx[r].body])
    /\ UNCHANGED <<now, nextId, rotCount, pwHist, loggedOutAll>>
    /\ UNCHANGED <<quota, stockVars>>

----------------------------------------------------------------------------
(* AuthService.refresh_tokens *)

\* refresh tokens signed now with the server's secret whose `sub` is no user id
\* (create_refresh_token(data={"sub": ...}) as the tests call it)
BadSubTokens == {create_refresh_token(sub, 0) : sub \in BadSubs}

\* the number of the pair a refresh token was issued in
SessionOf(refresh_token) == refresh_token.jti \div 2

\* the committed session records with the fingerprint of a refresh token
RecordsOf(refresh_token) ==
    {t \in Committed(tokens) : t.token_hash = hash_refresh_token(refresh_token)}

\* the case a refresh_tokens call is in when it begins, for the record of the response
RefreshObs(refresh_token) ==
    LET owner == IF IsJsonStr(refresh_token.sub) THEN UUID(refresh_token.sub.str) ELSE None
    IN  [rotated |-> refresh_token \in DOMAIN rotCount,
         subject |-> owner,
         pre_change |-> /\ owner \in DOMAIN users
                        /\ pwHist[owner] # None
                        /\ SessionOf(refresh_token) \in pwHist[owner].pre,
         bad_sub |-> ~uuid_UUID_returns(refresh_token.sub),
         valid_record |-> hash_refresh_token(refresh_token) \in ValidHashes(tokens),
         revoked |-> \E t \in RecordsOf(refresh_token) : t.is_revoked,
         expired |-> \E t \in RecordsOf(refresh_token) : t.expires_at <= now,
         owner_inactive |-> \E t \in RecordsOf(refresh_token) :
                               ~users[t.user_id].is_active,
         owner_deleted |-> \E t \in RecordsOf(refresh_token) :
                              users[t.user_id].is_deleted]

\* a refusal that also revokes every session record (reuse detection)
RefreshRefused_RevokeAll(r, exc, obs) ==
    /\ tokens' = {[t EXCEPT !.is_revoked = TRUE] : t \in RollbackTokens(r)}
    /\ users' = RollbackUsers(r)
    /\ pc' = [pc EXCEPT ![r] = "idle"]
    /\ req' = [req EXCEPT ![r] = None]
    /\ ctx' = [ctx EXCEPT ![r] = NoCtx]
    /\ response' = Response("refresh", exc.status_code, exc.detail, None, obs)

\* refresh_tokens raises: every raise comes before the handler's first write
RefreshRefused(r, exc, obs) == Raise(r, "refresh", exc, obs)

RefreshLookup(r, refresh_token) ==
    /\ MayBegin(r)
    /\ LET request == [op |-> "refresh", refresh_token |-> refresh_token]
           obs == RefreshObs(refresh_token)
           user_id == UUID(refresh_token.sub.str)
           token_hash == hash_refresh_token(refresh_token)
           db_token == get_by_token_hash(r, token_hash)
       IN  IF ~decode_refresh_token(refresh_token)
           THEN /\ RefreshRefused(r, InvalidRefreshToken, obs)
                /\ UNCHANGED <<now, nextId, issued, rotCount, pwHist, loggedOutAll>>
           ELSE IF ~uuid_UUID_returns(refresh_token.sub)
           THEN /\ RefreshRefused(r, InternalServerError, obs)
                /\ UNCHANGED <<now, nextId, issued, rotCount, pwHist, loggedOutAll>>
           ELSE IF db_token = {} \/ (CHOOSE t \in db_token : TRUE).user_id # user_id
           THEN /\ RefreshRefused(r, InvalidRefreshToken, obs)
                /\ UNCHANGED <<now, nextId, issued, rotCount, pwHist, loggedOutAll>>
           ELSE /\ CanIssue
                /\ Goto(r, "refresh_is_valid", request,
                        [NoCtx EXCEPT !.user_id = user_id, !.obs = obs])
                /\ UNCHANGED <<now, users, tokens, nextId, issued, rotCount, pwHist,
                               loggedOutAll>>
    /\ UNCHANGED <<quota, stockVars>>

RefreshIsValid(r) ==
    /\ pc[r] = "refresh_is_valid"
    /\ IF ~is_token_valid(r, hash_refresh_token(req[r].refresh_token))
       THEN /\ RefreshRefused(r, RefreshTokenExpiredOrRevoked, ctx[r].obs)
            /\ UNCHANGED <<now, nextId, issued, rotCount, pwHist, loggedOutAll>>
       ELSE /\ pc' = [pc EXCEPT ![r] = "refresh_revoke"]
            /\ response' = None
            /\ UNCHANGED <<now, users, tokens, nextId, req, ctx, issued, rotCount, pwHist, loggedOutAll>>
    /\ UNCHANGED <<quota, stockVars>>

\* await self.token_repo.revoke_token(token_hash): the result is not used
RefreshRevoke(r) ==
    /\ pc[r] = "refresh_revoke"
    /\ LET rows == RevokeTokenRows(r, hash_refresh_token(req[r].refresh_token))
       IN  /\ ~MustWait(r, rows)
           /\ tokens' = SetRevoked(r, rows)
    /\ pc' = [pc EXCEPT ![r] = "refresh_create"]
    /\ response' = None
    /\ UNCHANGED <<now, users, nextId, req, ctx, issued, rotCount, pwHist, loggedOutAll>>
    /\ UNCHANGED <<quota, stockVars>>

\* tokens = await self._create_tokens_for_user(user_id, device_info)
RefreshCreate(r) ==
    /\ pc[r] = "refresh_create"
    /\ CreateTokens(r, "refresh_commit")
    /\ UNCHANGED <<now, issued, rotCount, pwHist, loggedOutAll>>
    /\ UNCHANGED <<quota, stockVars>>

\* the route returns the new pair, get_db commits
RefreshCommit(r) ==
    /\ pc[r] = "refresh_commit"
    /\ ReturnIssued(r, ctx[r].body)
    /\ rotCount' = IF req[r].refresh_token \in DOMAIN rotCount
                   THEN [rotCount EXCEPT ![req[r].refresh_token] = @ + 1]
                   ELSE rotCount @@ (req[r].refresh_token :> 1)
    /\ UNCHANGED <<now, nextId, pwHist, loggedOutAll>>
    /\ UNCHANGED <<quota, stockVars>>

----------------------------------------------------------------------------
(* AuthService.logout *)

\* a refresh token signed now with the server's secret that was never issued
UnknownTokens == {create_refresh_token(JsonStr("u1"), 0)}

\* the access token of the pair a refresh token was issued in
AccessOf(refresh_token) ==
    [key |-> SECRET_KEY, alg |-> ALGORITHM, type |-> "access", sub |-> refresh_token.sub,
     exp |-> refresh_token.iat + ACCESS_TOKEN_EXPIRE_MINUTES, iat |-> refresh_token.iat,
     iss |-> refresh_token.iss, jti |-> refresh_token.jti - 1]
\* the case a logout call is in when its UPDATE runs, for the record of the response
LogoutObs(credentials, refresh_token) ==
    [credentials |-> credentials,
     session |-> SessionOf(refresh_token),
     known |-> RecordsOf(refresh_token) # {},
     revoked |-> \E t \in RecordsOf(refresh_token) : t.is_revoked,
     rotated |-> refresh_token \in DOMAIN rotCount,
     live |-> {t.id : t \in {x \in RecordsOf(refresh_token) :
                                 ~x.is_revoked /\ ~x.is_deleted}}]

\* The route declares no dependency on the Authorization header (only `data`
\* and `db`), so the credentials of the request are not looked at.
\* revoked = await self.token_repo.revoke_token(token_hash): the UPDATE waits
\* for the writer of the row it matches; rowcount 0 makes logout raise
Logout(r, credentials, refresh_token) ==
    /\ MayBegin(r)
    /\ LET rows == RevokeTokenRows(r, hash_refresh_token(refresh_token))
       IN  /\ ~MustWait(r, rows)
           /\ IF rows = {}
              THEN Raise(r, "logout", InvalidRefreshToken,
                         LogoutObs(credentials, refresh_token))
              ELSE /\ tokens' = SetRevoked(r, rows)
                   /\ Goto(r, "logout_commit", [op |-> "logout"],
                           [NoCtx EXCEPT !.obs = LogoutObs(credentials, refresh_token)])
                   /\ UNCHANGED users
    /\ UNCHANGED <<now, nextId, issued, rotCount, pwHist, loggedOutAll>>
    /\ UNCHANGED <<quota, stockVars>>

\* logout returns None, get_db commits the revocation
LogoutCommit(r) ==
    /\ pc[r] = "logout_commit"
    /\ Return(r, None)
    /\ UNCHANGED <<now, nextId, issued, rotCount, pwHist, loggedOutAll>>
    /\ UNCHANGED <<quota, stockVars>>

----------------------------------------------------------------------------
(* RefreshTokenRepository.revoke_all_user_tokens inside a handler *)

\* The UPDATE of revoke_all_user_tokens by request r: it revokes the rows it
\* matches and the handler goes on at `after`; when a row it matches is
\* written by another open transaction the statement waits at `waiting`.
\* the session records of a user that r sees
SessionsSeen(r, user_id) == {t.id : t \in {x \in VisibleTokens(r) : x.user_id = user_id}}

\* the committed session records of a user that are neither revoked nor deleted
UnrevokedSessions(user_id) ==
    {t.id : t \in {x \in Committed(tokens) :
                      x.user_id = user_id /\ ~x.is_revoked /\ ~x.is_deleted}}

RevokeAll(r, user_id, after, waiting) ==
    LET rows == RevokeAllRows(r, user_id)
        begun == [ctx[r] EXCEPT !.user_id = user_id,
                                !.pre = SessionsSeen(r, user_id),
                                !.obs = [active |-> UnrevokedSessions(user_id),
                                         waited |-> MustWait(r, rows)]]
    IN  IF MustWait(r, rows)
        THEN /\ pc' = [pc EXCEPT ![r] = waiting]
             /\ ctx' = [ctx EXCEPT ![r] = [begun EXCEPT !.snap = Snapshot(rows)]]
             /\ tokens' = tokens
        ELSE /\ pc' = [pc EXCEPT ![r] = after]
             /\ ctx' = [ctx EXCEPT ![r] = [begun EXCEPT !.body = [count |-> Cardinality(rows)]]]
             /\ tokens' = SetRevoked(r, rows)

WaitingLabels == {"logout_all_wait", "change_password_wait", "delete_user_wait"}
AfterWait(label) ==
    IF label = "logout_all_wait" THEN "logout_all_commit"
    ELSE IF label = "change_password_wait" THEN "change_password_commit"
    ELSE "delete_user_get"

\* the writers r waited for have ended: the statement re-checks and completes
RevokeAllWake(r) ==
    /\ pc[r] \in WaitingLabels
    /\ LET rows == RecheckedRows(r, ctx[r].user_id, ctx[r].snap)
       IN  /\ ~MustWait(r, rows)
           /\ tokens' = SetRevoked(r, rows)
           /\ ctx' = [ctx EXCEPT ![r].snap = None,
                                 ![r].body = [count |-> Cardinality(rows)]]
    /\ pc' = [pc EXCEPT ![r] = AfterWait(pc[r])]
    /\ response' = None
    /\ UNCHANGED <<now, users, nextId, req, issued, rotCount, pwHist, loggedOutAll>>
    /\ UNCHANGED <<quota, stockVars>>

----------------------------------------------------------------------------
(* AuthService.logout_all_devices *)

LogoutAll(r, user_id) ==
    /\ MayBegin(r)
    /\ RevokeAll(r, user_id, "logout_all_commit", "logout_all_wait")
    /\ req' = [req EXCEPT ![r] = [op |-> "logout_all"]]
    /\ response' = None
    /\ UNCHANGED <<now, users, nextId, issued, rotCount, pwHist, loggedOutAll>>
    /\ UNCHANGED <<quota, stockVars>>

LogoutAllCommit(r) ==
    /\ pc[r] = "logout_all_commit"
    /\ Return(r, ctx[r].body)
    /\ loggedOutAll' = IF ctx[r].user_id \in UserIds
                       THEN [loggedOutAll EXCEPT ![ctx[r].user_id] = @ \cup ctx[r].pre]
                       ELSE loggedOutAll
    /\ UNCHANGED <<now, nextId, issued, rotCount, pwHist>>
    /\ UNCHANGED <<quota, stockVars>>

----------------------------------------------------------------------------
(* AuthService.change_password *)

\* what change_password is called on: the stored row of the user and whether
\* old_password is the password of its hash
ChangePasswordObs(user_id, old_password) ==
    LET stored == user_id \in DOMAIN users
    IN  [user_id |-> user_id,
         absent |-> ~stored,
         soft_deleted |-> stored /\ users[user_id].is_deleted,
         bad_old |-> stored /\ old_password # PasswordOf(users[user_id].hashed_password)]

ChangePassword(r, user_id, old_password, new_password, salt) ==
    /\ MayBegin(r)
    /\ LET request == [op |-> "change_password",
                       old_password |-> old_password, new_password |-> new_password,
                       hashed_password |-> hash_password(new_password, salt)]
           found == user_get_by_id(r, user_id)
       IN  IF found = {}
           THEN /\ Raise(r, "change_password", UserNotFound,
                         ChangePasswordObs(user_id, old_password))
                /\ UNCHANGED <<now, nextId, issued, rotCount, pwHist, loggedOutAll>>
           ELSE IF ~verify_password(old_password, UserRow(r, user_id).hashed_password)
           THEN /\ Raise(r, "change_password", IncorrectOldPassword,
                         ChangePasswordObs(user_id, old_password))
                /\ UNCHANGED <<now, nextId, issued, rotCount, pwHist, loggedOutAll>>
           ELSE IF Raises(hash_password(new_password, salt))
           THEN /\ Raise(r, "change_password", InternalServerError,
                         ChangePasswordObs(user_id, old_password))
                /\ UNCHANGED <<now, nextId, issued, rotCount, pwHist, loggedOutAll>>
           ELSE /\ Goto(r, "change_password_get", request, [NoCtx EXCEPT !.user_id = user_id])
                /\ UNCHANGED <<now, users, tokens, nextId, issued, rotCount, pwHist,
                               loggedOutAll>>
    /\ UNCHANGED <<quota, stockVars>>

\* BaseRepository.update: obj = await self.get_by_id(id); None ends the update
ChangePasswordGet(r) ==
    /\ pc[r] = "change_password_get"
    /\ pc' = [pc EXCEPT ![r] = IF user_get_by_id(r, ctx[r].user_id) = {}
                               THEN "change_password_revoke"
                               ELSE "change_password_flush"]
    /\ response' = None
    /\ UNCHANGED <<now, users, tokens, nextId, req, ctx, issued, rotCount, pwHist,
                   loggedOutAll>>
    /\ UNCHANGED <<quota, stockVars>>

\* BaseRepository.update: setattr, flush (UPDATE users SET hashed_password), refresh.
\* The UPDATE waits for the row's writer; when the row has been deleted from
\* the table since get_by_id it matches no row, the ORM raises StaleDataError
\* and the request is answered 500.
ChangePasswordFlush(r) ==
    /\ pc[r] = "change_password_flush"
    /\ ctx[r].user_id \in DOMAIN users => ~UserRowLocked(r, ctx[r].user_id)
    /\ IF ctx[r].user_id \notin DOMAIN users
       THEN Raise(r, "change_password", InternalServerError,
                  ChangePasswordObs(ctx[r].user_id, req[r].old_password))
       ELSE /\ users' = [users EXCEPT ![ctx[r].user_id].xlock = r,
                                      ![ctx[r].user_id].pending.set_password = TRUE,
                                      ![ctx[r].user_id].pending.hashed_password =
                                          req[r].hashed_password]
            /\ pc' = [pc EXCEPT ![r] = "change_password_revoke"]
            /\ response' = None
            /\ UNCHANGED <<tokens, req, ctx>>
    /\ UNCHANGED <<now, nextId, issued, rotCount, pwHist, loggedOutAll>>
    /\ UNCHANGED <<quota, stockVars>>

\* a change_password that leaves the sessions of the user alone
ChangePasswordRevoke_Skip(r) ==
    /\ pc[r] = "change_password_revoke"
    /\ pc' = [pc EXCEPT ![r] = "change_password_commit"]
    /\ ctx' = [ctx EXCEPT ![r].pre = SessionsSeen(r, ctx[r].user_id)]
    /\ response' = None
    /\ UNCHANGED <<now, users, tokens, nextId, req, issued, rotCount, pwHist, loggedOutAll>>
    /\ UNCHANGED <<quota, stockVars>>

ChangePasswordRevoke(r) ==
    /\ pc[r] = "change_password_revoke"
    /\ RevokeAll(r, ctx[r].user_id, "change_password_commit", "change_password_wait")
    /\ response' = None
    /\ UNCHANGED <<now, users, nextId, req, issued, rotCount, pwHist, loggedOutAll>>
    /\ UNCHANGED <<quota, stockVars>>

ChangePasswordCommit(r) ==
    /\ pc[r] = "change_password_commit"
    /\ Return(r, None)
    /\ pwHist' = [pwHist EXCEPT ![ctx[r].user_id] =
                    IF ctx[r].user_id \notin DOMAIN users'
                         \/ users'[ctx[r].user_id].is_deleted
                    THEN None
                    ELSE [old_password |-> req[r].old_password,
                          new_password |-> req[r].new_password,
                          pre |-> ctx[r].pre]]
    /\ UNCHANGED <<now, nextId, issued, rotCount, loggedOutAll>>
    /\ UNCHANGED <<quota, stockVars>>

----------------------------------------------------------------------------
(* AuthService.delete_user *)

DeleteUser(r, user_id) ==
    /\ MayBegin(r)
    /\ IF user_get_by_id(r, user_id) = {}
       THEN /\ Raise(r, "delete_user", UserNotFound, None)
            /\ UNCHANGED <<now, nextId, issued, rotCount, pwHist, loggedOutAll>>
       ELSE /\ Goto(r, "delete_user_revoke", [op |-> "delete_user"],
                    [NoCtx EXCEPT !.user_id = user_id])
            /\ UNCHANGED <<now, users, tokens, nextId, issued, rotCount, pwHist,
                           loggedOutAll>>
    /\ UNCHANGED <<quota, stockVars>>

DeleteUserRevoke(r) ==
    /\ pc[r] = "delete_user_revoke"
    /\ RevokeAll(r, ctx[r].user_id, "delete_user_get", "delete_user_wait")
    /\ response' = None
    /\ UNCHANGED <<now, users, nextId, req, issued, rotCount, pwHist, loggedOutAll>>
    /\ UNCHANGED <<quota, stockVars>>

\* BaseRepository.soft_delete: obj = await self.get_by_id(id); None makes it return False
DeleteUserGet(r) ==
    /\ pc[r] = "delete_user_get"
    /\ IF user_get_by_id(r, ctx[r].user_id) = {}
       THEN /\ Raise(r, "delete_user", FailedToDeleteUser, None)
            /\ UNCHANGED <<now, nextId, issued, rotCount, pwHist, loggedOutAll>>
       ELSE /\ pc' = [pc EXCEPT ![r] = "delete_user_flush"]
            /\ response' = None
            /\ UNCHANGED <<now, users, tokens, nextId, req, ctx, issued, rotCount,
                           pwHist, loggedOutAll>>
    /\ UNCHANGED <<quota, stockVars>>

\* BaseRepository.soft_delete: obj.is_deleted = True; flush (UPDATE users SET
\* is_deleted).  The UPDATE waits for the row's writer; when the row has been
\* deleted from the table since get_by_id it matches no row, the ORM raises
\* StaleDataError and the request is answered 500.
DeleteUserFlush(r) ==
    /\ pc[r] = "delete_user_flush"
    /\ ctx[r].user_id \in DOMAIN users => ~UserRowLocked(r, ctx[r].user_id)
    /\ IF ctx[r].user_id \notin DOMAIN users
       THEN Raise(r, "delete_user", InternalServerError, None)
       ELSE /\ users' = [users EXCEPT ![ctx[r].user_id].xlock = r,
                                      ![ctx[r].user_id].pending.set_deleted = TRUE]
            /\ pc' = [pc EXCEPT ![r] = "delete_user_commit"]
            /\ response' = None
            /\ UNCHANGED <<tokens, req, ctx>>
    /\ UNCHANGED <<now, nextId, issued, rotCount, pwHist, loggedOutAll>>
    /\ UNCHANGED <<quota, stockVars>>

DeleteUserCommit(r) ==
    /\ pc[r] = "delete_user_commit"
    /\ Return(r, None)
    /\ pwHist' = [pwHist EXCEPT ![ctx[r].user_id] = None]
    /\ UNCHANGED <<now, nextId, issued, rotCount, loggedOutAll>>
    /\ UNCHANGED <<quota, stockVars>>

----------------------------------------------------------------------------
(* The database ends a deadlock by failing one of the two statements *)

\* the users rows r's DELETE FROM users has written, uncommitted
DeletedUsers(r) == {u \in DOMAIN users : users[u].xlock = r /\ users[u].pending.delete}

\* the transactions that hold one of the users rows `rows` against a DELETE:
\* the writer of a row, and the transaction that has inserted a session record
\* of the user, which holds the row through the foreign key
UserHolders(r, rows) ==
    {users[u].xlock : u \in {x \in rows : UserRowLocked(r, x)}}
      \cup {t.xmin : t \in {x \in tokens : x.user_id \in rows /\ x.xmin \notin {NoTx, r}}}

\* the transactions whose rows the next statement of r has to wait for
WaitsFor(r) ==
    LET tokenRows ==
            IF pc[r] = "refresh_revoke"
            THEN RevokeTokenRows(r, hash_refresh_token(req[r].refresh_token))
            ELSE IF pc[r] \in WaitingLabels
            THEN RecheckedRows(r, ctx[r].user_id, ctx[r].snap)
            ELSE IF pc[r] \in {"sweep_wait", "clear_tokens_wait"}
            THEN {t \in VisibleTokens(r) : t.id \in ctx[r].snap}
            ELSE IF pc[r] \in {"soft_delete_flush", "hard_delete_flush"}
            THEN {t \in VisibleTokens(r) : t.id = req[r].id}
            ELSE IF pc[r] = "clear_cascade"
            THEN {t \in VisibleTokens(r) : t.user_id \in DeletedUsers(r)}
            ELSE {}
        userRows ==
            IF pc[r] \in {"change_password_flush", "delete_user_flush", "user_update_flush"}
            THEN {ctx[r].user_id} \cap DOMAIN users
            ELSE {}
        heldRows ==
            IF pc[r] = "clear_users_wait" THEN ctx[r].snap \cap VisibleUsers(r) ELSE {}
        referenced ==
            IF pc[r] \in {"register_tokens", "login_create", "refresh_create"}
            THEN {u \in {ctx[r].user_id} : ForeignKeyMustWait(r, u)}
            ELSE {}
    IN  {t.xrev : t \in {x \in tokenRows : x.xrev # NoTx /\ x.xrev # r}}
        \cup {users[u].xlock : u \in {x \in userRows : UserRowLocked(r, x)}}
        \cup UserHolders(r, heldRows)
        \cup {users[u].xlock : u \in referenced}

DeadlockDetected(r) ==
    /\ \E q \in WaitsFor(r) : r \in WaitsFor(q)
    /\ Raise(r, req[r].op, InternalServerError, ctx[r].obs)
    /\ UNCHANGED <<now, nextId, issued, rotCount, pwHist, loggedOutAll>>
    /\ UNCHANGED <<quota, stockVars>>

----------------------------------------------------------------------------
(* BaseRepository.update on users: user_repo.update(id, is_active=...) called *)
(* on its own deactivates an account or activates it again, and             *)
(* UserService.update_user changes the profile                              *)

\* UserNotFoundError(str(user_id)), as the handler of DomainException answers it
UserNotFoundError(user_id) ==
    HTTPException(HTTP_404_NOT_FOUND, <<"User with ID ", str(user_id), " not found">>)

\* the first names update_user is called with
FirstNames == {"Renamed"}

\* user_repo.update(user_id, is_active=...): get_by_id selects the row and
\* update returns None when there is none
SetActive(r, user_id, is_active) ==
    /\ MayBegin(r)
    /\ UNCHANGED <<now, users, tokens, nextId, issued, rotCount, pwHist, loggedOutAll>>
    /\ UNCHANGED <<quota, stockVars>>
    /\ IF user_get_by_id(r, user_id) = {}
       THEN RepositoryAnswer(r, "update", None, None)
       ELSE Goto(r, "user_update_flush",
                 [op |-> "update", columns |-> {"is_active"},
                  is_active |-> is_active, first_name |-> ""],
                 [NoCtx EXCEPT !.user_id = user_id,
                               !.user = UserResponse(user_id, UserRow(r, user_id))])

\* UserService.update_user(user_id, **update_data): get_by_id selects the row
UpdateUser(r, user_id, update_data) ==
    /\ MayBegin(r)
    /\ IF user_get_by_id(r, user_id) = {}
       THEN Raise(r, "update_user", UserNotFoundError(user_id), None)
       ELSE /\ Goto(r, "update_user_update",
                    [op |-> "update_user", columns |-> DOMAIN update_data,
                     is_active |-> FALSE,
                     first_name |-> IF "first_name" \in DOMAIN update_data
                                    THEN update_data.first_name ELSE ""],
                    [NoCtx EXCEPT !.user_id = user_id,
                                  !.user = UserResponse(user_id, UserRow(r, user_id))])
            /\ UNCHANGED <<users, tokens>>
    /\ UNCHANGED <<now, nextId, issued, rotCount, pwHist, loggedOutAll>>
    /\ UNCHANGED <<quota, stockVars>>

\* `if update_data:` user_repo.update selects the row again and returns None
\* when it has been deleted since, which UserResponse.model_validate refuses
UpdateUserUpdate(r) ==
    /\ pc[r] = "update_user_update"
    /\ IF req[r].columns = {}
       THEN Return(r, ctx[r].user)
       ELSE IF user_get_by_id(r, ctx[r].user_id) = {}
       THEN Raise(r, "update_user", InternalServerError, None)
       ELSE /\ pc' = [pc EXCEPT ![r] = "user_update_flush"]
            /\ response' = None
            /\ UNCHANGED <<users, tokens, req, ctx>>
    /\ UNCHANGED <<now, nextId, issued, rotCount, pwHist, loggedOutAll>>
    /\ UNCHANGED <<quota, stockVars>>

\* setattr and flush: UPDATE users SET ... WHERE id = :id, which waits for the
\* row's writer and is emitted also when no column changes its value
\* (before_update sets updated_at); it sets the columns whose new value
\* differs from the one the session has loaded at get_by_id.  The row stays
\* locked until the commit.  When the row has been deleted from the table
\* since get_by_id the UPDATE matches no row and the ORM raises StaleDataError,
\* which update_user leaves to the server: 500.
UserUpdateFlush(r) ==
    /\ pc[r] = "user_update_flush"
    /\ ctx[r].user_id \in DOMAIN users => ~UserRowLocked(r, ctx[r].user_id)
    /\ IF ctx[r].user_id \notin DOMAIN users
       THEN IF req[r].op = "update_user"
            THEN Raise(r, "update_user", InternalServerError, None)
            ELSE RepositoryRaise(r, "StaleDataError")
       ELSE /\ users' = [users EXCEPT
                           ![ctx[r].user_id].xlock = r,
                           ![ctx[r].user_id].pending.columns =
                               {c \in req[r].columns : req[r][c] # ctx[r].user[c]},
                           ![ctx[r].user_id].pending.is_active = req[r].is_active,
                           ![ctx[r].user_id].pending.first_name = req[r].first_name]
            /\ pc' = [pc EXCEPT ![r] = "user_update_commit"]
            /\ response' = None
            /\ UNCHANGED <<tokens, req, ctx>>
    /\ UNCHANGED <<now, nextId, issued, rotCount, pwHist, loggedOutAll>>
    /\ UNCHANGED <<quota, stockVars>>

\* refresh reads the row back and the caller commits
UserUpdateCommit(r) ==
    /\ pc[r] = "user_update_commit"
    /\ LET updated == UserResponse(ctx[r].user_id, UserRow(r, ctx[r].user_id))
       IN  IF req[r].op = "update_user"
           THEN Return(r, updated)
           ELSE RepositoryReturn(r, updated)
    /\ UNCHANGED <<now, nextId, issued, rotCount, pwHist, loggedOutAll>>
    /\ UNCHANGED <<quota, stockVars>>

----------------------------------------------------------------------------
(* RefreshTokenRepository.delete_expired_tokens, run by a scheduler *)

\* a sweep that leaves the soft-deleted rows in place
ExpiredRows_NotDeleted(r) == {t \in VisibleTokens(r) : t.expires_at < now /\ ~t.is_deleted}

\* a sweep that also deletes the revoked rows
ExpiredRows_OrRevoked(r) == {t \in VisibleTokens(r) : t.expires_at < now \/ t.is_revoked}

\* DELETE FROM refresh_tokens WHERE expires_at < :now
ExpiredRows(r) == {t \in VisibleTokens(r) : t.expires_at < now}

\* DELETE FROM refresh_tokens WHERE user_id = :user_id AND expires_at < :now
UserExpiredRows(r, user_id) == {t \in ExpiredRows(r) : t.user_id = user_id}

\* The DELETE of a sweep in a session of its own: it deletes the rows it
\* matches, uncommitted, and waits when one of them is written by another
\* open transaction.
Sweep(r, op, user_id, rows) ==
    LET begun == [NoCtx EXCEPT !.user_id = user_id,
                               !.obs = [before |-> SessionRecords(tokens),
                                        at |-> now,
                                        matched |-> Snapshot(rows),
                                        waited |-> MustWait(r, rows)]]
    IN  /\ MayBegin(r)
        /\ req' = [req EXCEPT ![r] = [op |-> op]]
        /\ IF MustWait(r, rows)
           THEN /\ pc' = [pc EXCEPT ![r] = "sweep_wait"]
                /\ ctx' = [ctx EXCEPT ![r] = [begun EXCEPT !.snap = Snapshot(rows)]]
                /\ tokens' = tokens
           ELSE /\ pc' = [pc EXCEPT ![r] = "repository_commit"]
                /\ ctx' = [ctx EXCEPT ![r] = [begun EXCEPT !.body = Cardinality(rows)]]
                /\ tokens' = SetDeleted(r, rows)
        /\ response' = None
        /\ UNCHANGED <<now, users, nextId, issued, rotCount, pwHist, loggedOutAll>>
        /\ UNCHANGED <<quota, stockVars>>

DeleteExpiredTokens(r) == Sweep(r, "delete_expired_tokens", None, ExpiredRows(r))

DeleteUserExpiredTokens(r, user_id) ==
    Sweep(r, "delete_user_expired_tokens", user_id, UserExpiredRows(r, user_id))

\* the writers the DELETE waited for have ended: it deletes the rows of its
\* snapshot that are still there
SweepWake(r) ==
    /\ pc[r] = "sweep_wait"
    /\ LET rows == {t \in VisibleTokens(r) : t.id \in ctx[r].snap}
       IN  /\ ~MustWait(r, rows)
           /\ tokens' = SetDeleted(r, rows)
           /\ ctx' = [ctx EXCEPT ![r].snap = None, ![r].body = Cardinality(rows)]
    /\ pc' = [pc EXCEPT ![r] = "repository_commit"]
    /\ response' = None
    /\ UNCHANGED <<now, users, nextId, req, issued, rotCount, pwHist, loggedOutAll>>
    /\ UNCHANGED <<quota, stockVars>>

\* the caller of the repository commits
RepositoryCommit(r) ==
    /\ pc[r] = "repository_commit"
    /\ RepositoryReturn(r, ctx[r].body)
    /\ UNCHANGED <<now, nextId, issued, rotCount, pwHist, loggedOutAll>>
    /\ UNCHANGED <<quota, stockVars>>

----------------------------------------------------------------------------
(* clear_users.py: clear_all_users, run on a connection of its own *)

\* DELETE FROM users waits while another open transaction writes one of the
\* rows or holds one of them through the foreign key of a session record it
\* has inserted
DeleteUsersMustWait(r, rows) == UserHolders(r, rows) # {}

\* DELETE FROM users on `rows`, uncommitted: the rows are locked and deleted,
\* and the ON DELETE CASCADE of refresh_tokens.user_id runs after them, at the
\* end of the statement; result.rowcount is the number of users
DeleteUsers(r, rows) ==
    /\ users' = [u \in DOMAIN users |->
                   IF u \in rows
                   THEN [users[u] EXCEPT !.xlock = r, !.pending.delete = TRUE]
                   ELSE users[u]]
    /\ tokens' = tokens
    /\ pc' = [pc EXCEPT ![r] = "clear_cascade"]
    /\ ctx' = [ctx EXCEPT ![r].snap = None, ![r].body = Cardinality(rows)]

\* conn.execute(text("DELETE FROM refresh_tokens")): the statement deletes the
\* rows it sees, uncommitted, and waits when one of them is written by another
\* open transaction
ClearAllUsers(r) ==
    LET rows == VisibleTokens(r)
    IN  /\ MayBegin(r)
        /\ req' = [req EXCEPT ![r] = [op |-> "clear_all_users"]]
        /\ IF MustWait(r, rows)
           THEN /\ pc' = [pc EXCEPT ![r] = "clear_tokens_wait"]
                /\ ctx' = [ctx EXCEPT ![r] = [NoCtx EXCEPT !.snap = Snapshot(rows)]]
                /\ tokens' = tokens
           ELSE /\ pc' = [pc EXCEPT ![r] = "clear_users"]
                /\ ctx' = [ctx EXCEPT ![r] = NoCtx]
                /\ tokens' = SetDeleted(r, rows)
        /\ response' = None
        /\ UNCHANGED <<now, users, nextId, issued, rotCount, pwHist, loggedOutAll>>
        /\ UNCHANGED <<quota, stockVars>>

\* the writers the DELETE waited for have ended: it deletes the rows of its
\* snapshot that are still there
ClearAllUsersWake(r) ==
    /\ pc[r] = "clear_tokens_wait"
    /\ LET rows == {t \in VisibleTokens(r) : t.id \in ctx[r].snap}
       IN  /\ ~MustWait(r, rows)
           /\ tokens' = SetDeleted(r, rows)
    /\ pc' = [pc EXCEPT ![r] = "clear_users"]
    /\ ctx' = [ctx EXCEPT ![r].snap = None]
    /\ response' = None
    /\ UNCHANGED <<now, users, nextId, req, issued, rotCount, pwHist, loggedOutAll>>
    /\ UNCHANGED <<quota, stockVars>>

\* conn.execute(text("DELETE FROM users")): every row of the table the
\* statement sees
ClearAllUsersUsers(r) ==
    /\ pc[r] = "clear_users"
    /\ LET rows == VisibleUsers(r)
       IN  IF DeleteUsersMustWait(r, rows)
           THEN /\ pc' = [pc EXCEPT ![r] = "clear_users_wait"]
                /\ ctx' = [ctx EXCEPT ![r].snap = rows]
                /\ UNCHANGED <<users, tokens>>
           ELSE DeleteUsers(r, rows)
    /\ response' = None
    /\ UNCHANGED <<now, nextId, req, issued, rotCount, pwHist, loggedOutAll>>
    /\ UNCHANGED <<quota, stockVars>>

\* the transactions the DELETE waited for have ended: it deletes the rows of
\* its snapshot that are still there
ClearAllUsersUsersWake(r) ==
    /\ pc[r] = "clear_users_wait"
    /\ LET rows == ctx[r].snap \cap VisibleUsers(r)
       IN  /\ ~DeleteUsersMustWait(r, rows)
           /\ DeleteUsers(r, rows)
    /\ response' = None
    /\ UNCHANGED <<now, nextId, req, issued, rotCount, pwHist, loggedOutAll>>
    /\ UNCHANGED <<quota, stockVars>>

\* ON DELETE CASCADE: the session records of the deleted users are deleted
\* while the users rows stay locked; the DELETE waits when one of the records
\* is written by another open transaction
ClearAllUsersCascade(r) ==
    /\ pc[r] = "clear_cascade"
    /\ LET rows == {t \in VisibleTokens(r) : t.user_id \in DeletedUsers(r)}
       IN  /\ ~MustWait(r, rows)
           /\ tokens' = SetDeleted(r, rows)
    /\ pc' = [pc EXCEPT ![r] = "clear_commit"]
    /\ response' = None
    /\ UNCHANGED <<now, users, nextId, req, ctx, issued, rotCount, pwHist, loggedOutAll>>
    /\ UNCHANGED <<quota, stockVars>>

\* the database ends a deadlock by failing the statement of clear_all_users:
\* conn.execute raises, the connection is closed without a commit and the
\* script ends with the error
ClearAllUsersDeadlock(r) ==
    /\ pc[r] \in {"clear_tokens_wait", "clear_users_wait", "clear_cascade"}
    /\ \E q \in WaitsFor(r) : r \in WaitsFor(q)
    /\ tokens' = RollbackTokens(r)
    /\ users' = RollbackUsers(r)
    /\ pc' = [pc EXCEPT ![r] = "idle"]
    /\ req' = [req EXCEPT ![r] = None]
    /\ ctx' = [ctx EXCEPT ![r] = NoCtx]
    /\ response' = [op |-> "clear_all_users", exception |-> "DBAPIError"]
    /\ UNCHANGED <<now, nextId, issued, rotCount, pwHist, loggedOutAll>>
    /\ UNCHANGED <<quota, stockVars>>

\* conn.commit()
ClearAllUsersCommit(r) ==
    /\ pc[r] = "clear_commit"
    /\ tokens' = CommitTokens(r)
    /\ users' = CommitUsers(r)
    /\ pc' = [pc EXCEPT ![r] = "clear_count"]
    /\ response' = None
    /\ UNCHANGED <<now, nextId, req, ctx, issued, rotCount, pwHist, loggedOutAll>>
    /\ UNCHANGED <<quota, stockVars>>

\* SELECT COUNT(*) FROM users; the two numbers are printed and the connection
\* is closed
ClearAllUsersCount(r) ==
    /\ pc[r] = "clear_count"
    /\ pc' = [pc EXCEPT ![r] = "idle"]
    /\ req' = [req EXCEPT ![r] = None]
    /\ ctx' = [ctx EXCEPT ![r] = NoCtx]
    /\ response' = [op |-> "clear_all_users", rowcount |-> ctx[r].body,
                    count |-> Cardinality(DOMAIN users)]
    /\ UNCHANGED <<now, users, tokens, nextId, issued, rotCount, pwHist, loggedOutAll>>
    /\ UNCHANGED <<quota, stockVars>>

----------------------------------------------------------------------------
(* api/dependencies/auth.py: get_current_user *)

CouldNotValidateCredentials ==
    HTTPException(HTTP_401_UNAUTHORIZED, "Could not validate credentials")
InvalidTokenType == HTTPException(HTTP_401_UNAUTHORIZED, "Invalid token type")
InvalidUserIdInToken == HTTPException(HTTP_401_UNAUTHORIZED, "Invalid user ID in token")
CurrentUserNotFound == HTTPException(HTTP_401_UNAUTHORIZED, "User not found")

\* the dependency returns the user, or raises
Authenticated(user_id) == [status_code |-> HTTP_200_OK, detail |-> "", user |-> user_id]
Rejected(exc) == [status_code |-> exc.status_code, detail |-> exc.detail, user |-> None]

\* a dependency that trusts the subject of the token without looking it up
get_current_user_TrustToken(token) ==
    IF ~decode_access_token(token) THEN Rejected(CouldNotValidateCredentials)
    ELSE IF token.type # "access" THEN Rejected(InvalidTokenType)
    ELSE IF token.sub = Missing \/ token.sub = JsonStr("")
    THEN Rejected(CouldNotValidateCredentials)
    ELSE IF ~uuid_UUID_returns(token.sub) THEN Rejected(InvalidUserIdInToken)
    ELSE Authenticated(UUID(token.sub.str))

\* a dependency that also asks for a valid session record of the user
get_current_user_RequireSession(token) ==
    IF get_current_user_TrustToken(token).status_code # HTTP_200_OK
    THEN get_current_user_TrustToken(token)
    ELSE IF user_get_by_id(NoTx, UUID(token.sub.str)) = {}
              \/ ~\E t \in VisibleTokens(NoTx) :
                     /\ t.user_id = UUID(token.sub.str)
                     /\ ~IsRevoked(NoTx, t)
                     /\ ~t.is_deleted
                     /\ t.expires_at > now
    THEN Rejected(CurrentUserNotFound)
    ELSE Authenticated(UUID(token.sub.str))

get_current_user(token) ==
    IF ~decode_access_token(token) THEN Rejected(CouldNotValidateCredentials)
    ELSE IF token.type # "access" THEN Rejected(InvalidTokenType)
    ELSE IF token.sub = Missing \/ token.sub = JsonStr("")
    THEN Rejected(CouldNotValidateCredentials)
    ELSE IF ~uuid_UUID_returns(token.sub) THEN Rejected(InvalidUserIdInToken)
    ELSE IF user_get_by_id(NoTx, UUID(token.sub.str)) = {}
    THEN Rejected(CurrentUserNotFound)
    ELSE Authenticated(UUID(token.sub.str))

\* the access tokens handed to clients, each with the refresh token of its pair
AccessTokens == {AccessOf(t) : t \in issued}

\* what a request presents its bearer token in: the stored row of the subject,
\* the clock, and the session record the token was issued with
CurrentUserObs(token) ==
    LET owner == IF uuid_UUID_returns(token.sub) THEN UUID(token.sub.str) ELSE None
        stored == owner \in DOMAIN users
        records == {t \in SessionRecords(tokens) :
                      \E rt \in issued : /\ AccessOf(rt) = token
                                         /\ t.token_hash = hash_refresh_token(rt)}
    IN  [access |-> token \in AccessTokens,
         owner |-> owner,
         owner_deleted |-> stored /\ users[owner].is_deleted,
         owner_there |-> stored /\ ~users[owner].is_deleted,
         unexpired |-> token.exp > now,
         session_revoked |-> \E t \in records : t.is_revoked,
         logged_out_all |-> stored /\ owner \in UserIds /\ loggedOutAll[owner] # {},
         password_changed |-> stored /\ owner \in UserIds /\ pwHist[owner] # None]

\* a request to a route that depends on get_current_user: one SELECT on users
GetCurrentUser(token) ==
    LET got == get_current_user(token)
    IN  /\ UNCHANGED <<now, users, tokens, nextId, pc, req, ctx, issued, rotCount, pwHist,
                       loggedOutAll>>
        /\ response' = Response("get_current_user", got.status_code, got.detail,
                                got.user, CurrentUserObs(token))
        /\ UNCHANGED <<quota, stockVars>>

----------------------------------------------------------------------------
(* RefreshTokenRepository called on its own, as its tests call it *)

\* the fingerprints the repository is asked about
KnownHashes == {hash_refresh_token(t) : t \in issued \cup UnknownTokens}

\* BaseRepository.soft_delete(id) on a refresh_tokens row: get_by_id selects the
\* row, soft-deleted rows left out, and answers False when there is none
SoftDeleteToken(r, id) ==
    /\ MayBegin(r)
    /\ UNCHANGED <<now, users, tokens, nextId, issued, rotCount, pwHist, loggedOutAll>>
    /\ UNCHANGED <<quota, stockVars>>
    /\ IF \E t \in VisibleTokens(r) : t.id = id /\ ~IsDeleted(r, t)
       THEN Goto(r, "soft_delete_flush", [op |-> "soft_delete", id |-> id], NoCtx)
       ELSE RepositoryAnswer(r, "soft_delete", FALSE, None)

\* flush: UPDATE refresh_tokens SET is_deleted = true WHERE id = :id; it waits
\* for the row's writer, and the ORM raises StaleDataError when the row is gone
SoftDeleteTokenFlush(r) ==
    /\ pc[r] = "soft_delete_flush"
    /\ LET rows == {t \in VisibleTokens(r) : t.id = req[r].id}
       IN  /\ ~MustWait(r, rows)
           /\ IF rows = {}
              THEN RepositoryRaise(r, "StaleDataError")
              ELSE /\ tokens' = SetSoftDeleted(r, rows)
                   /\ pc' = [pc EXCEPT ![r] = "repository_commit"]
                   /\ ctx' = [ctx EXCEPT ![r].body = TRUE]
                   /\ response' = None
                   /\ UNCHANGED <<users, req>>
    /\ UNCHANGED <<now, nextId, issued, rotCount, pwHist, loggedOutAll>>
    /\ UNCHANGED <<quota, stockVars>>

\* BaseRepository.hard_delete(id) on a refresh_tokens row: get_by_id selects the
\* row, soft-deleted or not, and answers False when there is none
HardDeleteToken(r, id) ==
    /\ MayBegin(r)
    /\ UNCHANGED <<now, users, tokens, nextId, issued, rotCount, pwHist, loggedOutAll>>
    /\ UNCHANGED <<quota, stockVars>>
    /\ IF \E t \in VisibleTokens(r) : t.id = id
       THEN Goto(r, "hard_delete_flush", [op |-> "hard_delete", id |-> id], NoCtx)
       ELSE RepositoryAnswer(r, "hard_delete", FALSE, None)

\* flush: DELETE FROM refresh_tokens WHERE id = :id; it waits for the row's
\* writer, and a row that is gone by then makes the ORM warn, not raise
HardDeleteTokenFlush(r) ==
    /\ pc[r] = "hard_delete_flush"
    /\ LET rows == {t \in VisibleTokens(r) : t.id = req[r].id}
       IN  /\ ~MustWait(r, rows)
           /\ tokens' = SetDeleted(r, rows)
    /\ pc' = [pc EXCEPT ![r] = "repository_commit"]
    /\ ctx' = [ctx EXCEPT ![r].body = TRUE]
    /\ response' = None
    /\ UNCHANGED <<now, users, nextId, req, issued, rotCount, pwHist, loggedOutAll>>
    /\ UNCHANGED <<quota, stockVars>>

\* RefreshTokenRepository.count_user_active_tokens
count_user_active_tokens(r, user_id) ==
    Cardinality({t \in VisibleTokens(r) :
                    /\ t.user_id = user_id
                    /\ ~IsRevoked(r, t)
                    /\ ~IsDeleted(r, t)
                    /\ t.expires_at > now})

CountUserActiveTokens(user_id) ==
    /\ response' = [op |-> "count_user_active_tokens", user_id |-> user_id,
                    result |-> count_user_active_tokens(NoTx, user_id)]
    /\ UNCHANGED <<now, users, tokens, nextId, pc, req, ctx, issued, rotCount, pwHist,
                   loggedOutAll>>
    /\ UNCHANGED <<quota, stockVars>>

IsTokenValid(token_hash) ==
    /\ response' = [op |-> "is_token_valid", token_hash |-> token_hash,
                    result |-> is_token_valid(NoTx, token_hash)]
    /\ UNCHANGED <<now, users, tokens, nextId, pc, req, ctx, issued, rotCount, pwHist,
                   loggedOutAll>>
    /\ UNCHANGED <<quota, stockVars>>

\* the two calls made in the session of request r, before it commits: they
\* see the writes of r that are not committed yet
CountUserActiveTokensIn(r, user_id) ==
    /\ pc[r] = "repository_commit"
    /\ response' = [op |-> "count_user_active_tokens", user_id |-> user_id,
                    result |-> count_user_active_tokens(r, user_id)]
    /\ UNCHANGED <<now, users, tokens, nextId, pc, req, ctx, issued, rotCount, pwHist,
                   loggedOutAll>>
    /\ UNCHANGED <<quota, stockVars>>

IsTokenValidIn(r, token_hash) ==
    /\ pc[r] = "repository_commit"
    /\ response' = [op |-> "is_token_valid", token_hash |-> token_hash,
                    result |-> is_token_valid(r, token_hash)]
    /\ UNCHANGED <<now, users, tokens, nextId, pc, req, ctx, issued, rotCount, pwHist,
                   loggedOutAll>>
    /\ UNCHANGED <<quota, stockVars>>

----------------------------------------------------------------------------
(* Time passes *)

TickSteps == {REFRESH_TOKEN_EXPIRE_DAYS * MINUTES_PER_DAY}

Tick(d) ==
    /\ now + d <= MaxDays * MINUTES_PER_DAY
    /\ now' = now + d
    /\ response' = None
    /\ UNCHANGED <<users, tokens, nextId, pc, req, ctx, issued, rotCount, pwHist, loggedOutAll>>
    /\ UNCHANGED <<quota, stockVars>>

----------------------------------------------------------------------------
(* The token functions of app/core/security.py called on their own *)

\* the clock steps between two calls: one day, and the life of a refresh token
CodecTickSteps == {MINUTES_PER_DAY, REFRESH_TOKEN_EXPIRE_DAYS * MINUTES_PER_DAY}
\* the `sub` the token functions are called with
CodecSubs == {JsonStr("u1")}
\* issuer claims of tokens that create_*_token does not produce
ForgedIssuers == {Missing, JsonStr("other-issuer")}

\* jwt.encode(payload, key, algorithm=ALGORITHM)
jwt_encode(payload, key) ==
    [key |-> key, alg |-> ALGORITHM, type |-> payload.type, sub |-> payload.sub,
     exp |-> payload.exp, iat |-> payload.iat, iss |-> payload.iss, jti |-> payload.jti]

\* unexpired tokens signed now with one of the server's secrets, of either
\* type, whose issuer claim is absent or another issuer
ForgedTokens ==
    {jwt_encode([type |-> type, sub |-> JsonStr("u1"),
                 exp |-> now + ACCESS_TOKEN_EXPIRE_MINUTES, iat |-> now,
                 iss |-> iss, jti |-> 0], key) :
        type \in {"access", "refresh"}, iss \in ForgedIssuers,
        key \in {SECRET_KEY, REFRESH_TOKEN_SECRET}}

\* the answer of a decoder: whether it returned the payload or raised
Decoded(op, token, accepted) ==
    [op |-> op, token |-> token, accepted |-> accepted, forged |-> token \notin issued]

CreateAccessToken(sub) ==
    /\ nextId < quota
    /\ issued' = issued \cup {create_access_token(sub, nextId + 1)}
    /\ nextId' = nextId + 1
    /\ response' = None
    /\ UNCHANGED <<now, users, tokens, pc, req, ctx, rotCount, pwHist, loggedOutAll>>
    /\ UNCHANGED <<quota, stockVars>>

CreateRefreshToken(sub) ==
    /\ nextId < quota
    /\ issued' = issued \cup {create_refresh_token(sub, nextId + 1)}
    /\ nextId' = nextId + 1
    /\ response' = None
    /\ UNCHANGED <<now, users, tokens, pc, req, ctx, rotCount, pwHist, loggedOutAll>>
    /\ UNCHANGED <<quota, stockVars>>

DecodeAccessToken(token) ==
    /\ response' = Decoded("decode_access_token", token, decode_access_token(token))
    /\ UNCHANGED <<now, users, tokens, nextId, pc, req, ctx, issued, rotCount, pwHist,
                   loggedOutAll>>
    /\ UNCHANGED <<quota, stockVars>>

DecodeRefreshToken(token) ==
    /\ response' = Decoded("decode_refresh_token", token, decode_refresh_token(token))
    /\ UNCHANGED <<now, users, tokens, nextId, pc, req, ctx, issued, rotCount, pwHist,
                   loggedOutAll>>
    /\ UNCHANGED <<quota, stockVars>>

----------------------------------------------------------------------------
(* ProductService.update_stock / increase_stock / decrease_stock *)

\* number of stock adjustments in one behaviour
MaxCalls == 3

InitialStocks == {0, 3, 10}
Quantities == {0, 3, 7}
QuantityDeltas == {-7, -3, 0, 3}

abs(x) == IF x < 0 THEN -x ELSE x

ProductNotFound(product_id) ==
    HTTPException(HTTP_404_NOT_FOUND, <<"Product with id ", str(product_id), " not found">>)
InsufficientStock(available, requested) ==
    HTTPException(HTTP_400_BAD_REQUEST,
                  <<"Insufficient stock. Available: ", available, ", requested: ", requested>>)
QuantityMustBePositive == HTTPException(HTTP_400_BAD_REQUEST, "Quantity must be positive")

\* stock_quantity of a products row as r sees it
StockSeen(r, p) ==
    IF products[p].xlock = r /\ products[p].pending.set
    THEN products[p].pending.stock_quantity
    ELSE products[p].stock_quantity

\* is_deleted of a products row as r sees it
ProductDeletedSeen(r, p) ==
    products[p].is_deleted \/ (products[p].xlock = r /\ products[p].pending.set_deleted)

\* products rows r sees: the committed ones and those it inserted
VisibleProducts(r) ==
    {p \in DOMAIN products : products[p].xmin = NoTx \/ products[p].xmin = r}

\* a products row as r sees it
ProductRow(r, p) ==
    LET mine == products[p].xlock = r
    IN  [slug |-> IF mine /\ "slug" \in products[p].pending.cols
                  THEN products[p].pending.slug
                  ELSE products[p].slug,
         sku |-> IF mine /\ "sku" \in products[p].pending.cols
                 THEN products[p].pending.sku
                 ELSE products[p].sku,
         stock_quantity |-> StockSeen(r, p), is_deleted |-> ProductDeletedSeen(r, p)]

\* BaseRepository.get_by_id on products, include_deleted = False
product_get_by_id(r, id) ==
    {p \in VisibleProducts(r) : p = id /\ ~ProductDeletedSeen(r, p)}

\* ProductRepository.slug_exists
product_slug_exists(r, slug, exclude_product_id) ==
    \E p \in VisibleProducts(r) :
        /\ ProductRow(r, p).slug = slug
        /\ ~ProductDeletedSeen(r, p)
        /\ p # exclude_product_id

\* ProductRepository.sku_exists
sku_exists(r, sku, exclude_product_id) ==
    \E p \in VisibleProducts(r) :
        /\ ProductRow(r, p).sku = sku
        /\ ~ProductDeletedSeen(r, p)
        /\ p # exclude_product_id

\* session.commit(): r's versions of the products rows become the committed ones
CommitProducts(r) ==
    [p \in DOMAIN products |->
        IF products[p].xmin = r \/ products[p].xlock = r
        THEN [products[p] EXCEPT !.slug = ProductRow(r, p).slug,
                                 !.sku = ProductRow(r, p).sku,
                                 !.stock_quantity = StockSeen(r, p),
                                 !.is_deleted = ProductDeletedSeen(r, p),
                                 !.xmin = NoTx,
                                 !.xlock = NoTx,
                                 !.pending = NoPendingStock]
        ELSE products[p]]

\* session.rollback(): r's versions of the products rows are dropped
RollbackProducts(r) ==
    [p \in {d \in DOMAIN products : products[d].xmin # r} |->
        IF products[p].xlock = r
        THEN [products[p] EXCEPT !.xlock = NoTx, !.pending = NoPendingStock]
        ELSE products[p]]

\* the ORM's UPDATE products ... WHERE id = :id waits for the row's writer
ProductRowLocked(r, p) == products[p].xlock # NoTx /\ products[p].xlock # r

\* new_quantity = product.stock_quantity + quantity_delta
new_quantity(stock_quantity, quantity_delta) == stock_quantity + quantity_delta

\* a check that lets every quantity through
IsInsufficient_Never(quantity) == FALSE

\* if new_quantity < 0: raise 400
IsInsufficient(quantity) == quantity < 0

\* if quantity <= 0: raise 400
IsNotPositive(quantity) == quantity <= 0

CanCall == Len(calls) + Cardinality({r \in Reqs : pc[r] # "idle"}) < MaxCalls

Call(op, product_id, quantity_delta, status_code, detail) ==
    [op |-> op, product_id |-> product_id, quantity_delta |-> quantity_delta,
     status_code |-> status_code, detail |-> detail]

\* what a stock adjustment is answered in: the committed row of the product
StockObs(product_id, quantity_delta) ==
    LET stored == product_id \in VisibleProducts(NoTx)
    IN  [product_id |-> product_id,
         quantity_delta |-> quantity_delta,
         missing |-> ~stored,
         soft_deleted |-> stored /\ products[product_id].is_deleted,
         stock_quantity |-> IF stored THEN products[product_id].stock_quantity ELSE 0]

\* the handler raises: get_db rolls the session back and the error is returned
StockRaise(r, op, product_id, quantity_delta, exc) ==
    /\ products' = RollbackProducts(r)
    /\ pc' = [pc EXCEPT ![r] = "idle"]
    /\ req' = [req EXCEPT ![r] = None]
    /\ ctx' = [ctx EXCEPT ![r] = NoCtx]
    /\ response' = [op |-> op, status_code |-> exc.status_code, detail |-> exc.detail,
                    body |-> None, obs |-> StockObs(product_id, quantity_delta),
                    changed |-> products' # products]
    /\ calls' = Append(calls, Call(op, product_id, quantity_delta, exc.status_code, exc.detail))

\* ProductService.update_stock up to the call of product_repo.update
update_stock(r, op, product_id, quantity_delta) ==
    LET found == product_get_by_id(r, product_id)
        stock_quantity == StockSeen(r, product_id)
    IN  IF found = {}
        THEN StockRaise(r, op, product_id, quantity_delta, ProductNotFound(product_id))
        ELSE IF IsInsufficient(new_quantity(stock_quantity, quantity_delta))
        THEN StockRaise(r, op, product_id, quantity_delta,
                        InsufficientStock(stock_quantity, abs(quantity_delta)))
        ELSE /\ pc' = [pc EXCEPT ![r] = "update_stock_update"]
             /\ req' = [req EXCEPT ![r] = [op |-> op, quantity_delta |-> quantity_delta]]
             /\ ctx' = [ctx EXCEPT ![r] =
                          [product_id |-> product_id,
                           stock_quantity |-> stock_quantity,
                           new_quantity |-> new_quantity(stock_quantity, quantity_delta)]]
             /\ response' = None
             /\ UNCHANGED <<products, calls>>

UpdateStock(r, product_id, quantity_delta) ==
    /\ MayBegin(r)
    /\ CanCall
    /\ update_stock(r, "update_stock", product_id, quantity_delta)
    /\ UNCHANGED <<quota, stock0>>
    /\ UNCHANGED sessionVars

IncreaseStock(r, product_id, quantity) ==
    /\ MayBegin(r)
    /\ CanCall
    /\ IF IsNotPositive(quantity)
       THEN StockRaise(r, "increase_stock", product_id, quantity, QuantityMustBePositive)
       ELSE update_stock(r, "increase_stock", product_id, quantity)
    /\ UNCHANGED <<quota, stock0>>
    /\ UNCHANGED sessionVars

DecreaseStock(r, product_id, quantity) ==
    /\ MayBegin(r)
    /\ CanCall
    /\ IF IsNotPositive(quantity)
       THEN StockRaise(r, "decrease_stock", product_id, -quantity, QuantityMustBePositive)
       ELSE update_stock(r, "decrease_stock", product_id, -quantity)
    /\ UNCHANGED <<quota, stock0>>
    /\ UNCHANGED sessionVars

\* BaseRepository.update: get_by_id selects the row again; the object the
\* session holds keeps the stock_quantity it has loaded.  update returns None
\* when the product has been soft-deleted since, and
\* ProductResponse.model_validate(None) fails: the request is answered 500.
ProductUpdate(r) ==
    /\ pc[r] = "update_stock_update"
    /\ IF product_get_by_id(r, ctx[r].product_id) = {}
       THEN StockRaise(r, req[r].op, ctx[r].product_id, req[r].quantity_delta,
                       InternalServerError)
       ELSE /\ pc' = [pc EXCEPT ![r] = "update_stock_flush"]
            /\ response' = None
            /\ UNCHANGED <<products, req, ctx, calls>>
    /\ UNCHANGED <<quota, stock0>>
    /\ UNCHANGED sessionVars

\* setattr, flush and refresh: the before_update listener sets updated_at, so
\* flush always emits UPDATE products ... WHERE id = :id, which waits for the
\* row's writer; the statement sets stock_quantity = :new_quantity when
\* new_quantity differs from the value the session has loaded, and leaves the
\* column as it is otherwise; refresh reads the row back
ProductUpdateFlush(r) ==
    /\ pc[r] = "update_stock_flush"
    /\ LET p == ctx[r].product_id
       IN  /\ ~ProductRowLocked(r, p)
           /\ products' = [products EXCEPT
                             ![p].xlock = r,
                             ![p].pending.set = ctx[r].new_quantity # ctx[r].stock_quantity,
                             ![p].pending.stock_quantity = ctx[r].new_quantity]
    /\ pc' = [pc EXCEPT ![r] = "update_stock_commit"]
    /\ response' = None
    /\ UNCHANGED <<req, ctx, quota, stock0, calls>>
    /\ UNCHANGED sessionVars

\* ProductResponse.model_validate(updated_product) is returned, get_db commits
UpdateStockCommit(r) ==
    /\ pc[r] = "update_stock_commit"
    /\ products' = CommitProducts(r)
    /\ pc' = [pc EXCEPT ![r] = "idle"]
    /\ req' = [req EXCEPT ![r] = None]
    /\ ctx' = [ctx EXCEPT ![r] = NoCtx]
    /\ response' = [op |-> req[r].op, status_code |-> HTTP_200_OK, detail |-> "",
                    body |-> [stock_quantity |-> StockSeen(r, ctx[r].product_id)],
                    obs |-> StockObs(ctx[r].product_id, req[r].quantity_delta),
                    changed |-> products'[ctx[r].product_id].stock_quantity
                                  # products[ctx[r].product_id].stock_quantity]
    /\ calls' = Append(calls, Call(req[r].op, ctx[r].product_id, req[r].quantity_delta,
                                   HTTP_200_OK, ""))
    /\ UNCHANGED <<quota, stock0>>
    /\ UNCHANGED sessionVars

\* ProductService.delete_product(product_id): get_by_id
DeleteProduct(r, product_id) ==
    /\ MayBegin(r)
    /\ CanCall
    /\ IF product_get_by_id(r, product_id) = {}
       THEN StockRaise(r, "delete_product", product_id, 0, ProductNotFound(product_id))
       ELSE /\ pc' = [pc EXCEPT ![r] = "delete_product_get"]
            /\ req' = [req EXCEPT ![r] = [op |-> "delete_product", quantity_delta |-> 0]]
            /\ ctx' = [ctx EXCEPT ![r] = [product_id |-> product_id]]
            /\ response' = None
            /\ UNCHANGED <<products, calls>>
    /\ UNCHANGED <<quota, stock0>>
    /\ UNCHANGED sessionVars

\* product_repo.soft_delete: get_by_id selects the row again; soft_delete
\* returns False when there is none and delete_product raises 404
DeleteProductGet(r) ==
    /\ pc[r] = "delete_product_get"
    /\ IF product_get_by_id(r, ctx[r].product_id) = {}
       THEN StockRaise(r, "delete_product", ctx[r].product_id, 0,
                       ProductNotFound(ctx[r].product_id))
       ELSE /\ pc' = [pc EXCEPT ![r] = "delete_product_flush"]
            /\ response' = None
            /\ UNCHANGED <<products, req, ctx, calls>>
    /\ UNCHANGED <<quota, stock0>>
    /\ UNCHANGED sessionVars

\* flush: UPDATE products SET is_deleted = true WHERE id = :id, which waits
\* for the row's writer
DeleteProductFlush(r) ==
    /\ pc[r] = "delete_product_flush"
    /\ ~ProductRowLocked(r, ctx[r].product_id)
    /\ products' = [products EXCEPT ![ctx[r].product_id].xlock = r,
                                    ![ctx[r].product_id].pending.set_deleted = TRUE]
    /\ pc' = [pc EXCEPT ![r] = "delete_product_commit"]
    /\ response' = None
    /\ UNCHANGED <<req, ctx, quota, stock0, calls>>
    /\ UNCHANGED sessionVars

\* delete_product returns None, get_db commits
DeleteProductCommit(r) ==
    /\ pc[r] = "delete_product_commit"
    /\ products' = CommitProducts(r)
    /\ pc' = [pc EXCEPT ![r] = "idle"]
    /\ req' = [req EXCEPT ![r] = None]
    /\ ctx' = [ctx EXCEPT ![r] = NoCtx]
    /\ response' = [op |-> "delete_product", status_code |-> HTTP_200_OK, detail |-> "",
                    body |-> None, obs |-> StockObs(ctx[r].product_id, 0),
                    changed |-> products'[ctx[r].product_id].is_deleted
                                  # products[ctx[r].product_id].is_deleted]
    /\ calls' = Append(calls, Call("delete_product", ctx[r].product_id, 0, HTTP_200_OK, ""))
    /\ UNCHANGED <<quota, stock0>>
    /\ UNCHANGED sessionVars

----------------------------------------------------------------------------
(* ProductRepository.atomic_update_stock *)

\* an UPDATE without the condition on the new stock_quantity
atomic_update_stock_Unchecked(r, product_id, quantity_delta) ==
    {p \in VisibleProducts(r) : p = product_id /\ ~ProductDeletedSeen(r, p)}

\* the rows the UPDATE changes: WHERE id = :product_id AND is_deleted = False
\* AND stock_quantity + :quantity_delta >= 0, evaluated on the newest version
\* of the row once its writer has ended
atomic_update_stock(r, product_id, quantity_delta) ==
    {p \in VisibleProducts(r) : /\ p = product_id
                                /\ ~ProductDeletedSeen(r, p)
                                /\ StockSeen(r, p) + quantity_delta >= 0}

\* the UPDATE writes the rows it has matched and RETURNING gives the new row:
\* result.scalar_one_or_none() is the product, or None when no row matched
AtomicUpdateStockExecute(r, product_id, quantity_delta) ==
    LET rows == atomic_update_stock(r, product_id, quantity_delta)
        returned == IF rows = {} THEN None
                    ELSE [id |-> product_id,
                          stock_quantity |-> StockSeen(r, product_id) + quantity_delta]
    IN  /\ products' = [p \in DOMAIN products |->
                          IF p \in rows
                          THEN [products[p] EXCEPT
                                  !.xlock = r,
                                  !.pending.set = TRUE,
                                  !.pending.stock_quantity =
                                      StockSeen(r, p) + quantity_delta]
                          ELSE products[p]]
        /\ pc' = [pc EXCEPT ![r] = "atomic_update_stock_commit"]
        /\ req' = [req EXCEPT ![r] = [op |-> "atomic_update_stock",
                                      quantity_delta |-> quantity_delta]]
        /\ ctx' = [ctx EXCEPT ![r] = [product_id |-> product_id, returned |-> returned]]
        /\ response' = [op |-> "atomic_update_stock", returned |-> returned,
                        obs |-> StockObs(product_id, quantity_delta),
                        changed |-> products' # products]

\* db.execute(stmt): the statement looks for the committed rows that satisfy
\* its WHERE clause; it waits when another open transaction has written such
\* a row, and writes otherwise
AtomicUpdateStock(r, product_id, quantity_delta) ==
    /\ MayBegin(r)
    /\ CanCall
    /\ IF \E p \in atomic_update_stock(r, product_id, quantity_delta) : ProductRowLocked(r, p)
       THEN /\ pc' = [pc EXCEPT ![r] = "atomic_update_stock_wait"]
            /\ req' = [req EXCEPT ![r] = [op |-> "atomic_update_stock",
                                          quantity_delta |-> quantity_delta]]
            /\ ctx' = [ctx EXCEPT ![r] = [product_id |-> product_id, returned |-> None]]
            /\ response' = None
            /\ UNCHANGED products
       ELSE AtomicUpdateStockExecute(r, product_id, quantity_delta)
    /\ UNCHANGED <<quota, stock0, calls>>
    /\ UNCHANGED sessionVars

\* the writer of the row has ended: the WHERE clause is evaluated again on
\* the newest version of the row
AtomicUpdateStockWake(r) ==
    /\ pc[r] = "atomic_update_stock_wait"
    /\ ~ProductRowLocked(r, ctx[r].product_id)
    /\ AtomicUpdateStockExecute(r, ctx[r].product_id, req[r].quantity_delta)
    /\ UNCHANGED <<quota, stock0, calls>>
    /\ UNCHANGED sessionVars

\* the caller's transaction commits
AtomicUpdateStockCommit(r) ==
    /\ pc[r] = "atomic_update_stock_commit"
    /\ products' = CommitProducts(r)
    /\ pc' = [pc EXCEPT ![r] = "idle"]
    /\ req' = [req EXCEPT ![r] = None]
    /\ ctx' = [ctx EXCEPT ![r] = NoCtx]
    /\ response' = None
    /\ calls' = Append(calls, [op |-> "atomic_update_stock",
                               product_id |-> ctx[r].product_id,
                               quantity_delta |-> req[r].quantity_delta,
                               returned |-> ctx[r].returned])
    /\ UNCHANGED <<quota, stock0>>
    /\ UNCHANGED sessionVars

----------------------------------------------------------------------------
(* CategoryService.create_category / update_category / delete_category *)

\* the ids uuid.uuid4() gives to the categories that are created, in order;
\* UUID("c9") is the id of no row
NewCategoryIds == <<UUID("c1"), UUID("c2"), UUID("c3"), UUID("c4")>>
AnyCategoryIds == {NewCategoryIds[i] : i \in 1..MaxCategories} \cup {UUID("c9")}
\* the names and slugs create_category is called with
CategoryData ==
    {[name |-> "A", slug |-> "a"], [name |-> "B", slug |-> "b"], [name |-> "A", slug |-> "c"]}
\* the parents create_category is called with: the first category, the id of
\* no row, and none
CreateParentIds == {NewCategoryIds[1], UUID("c9"), None}
\* the data update_category is called with, as model_dump(exclude_unset=True)
\* gives them: a change of parent_id (None makes the category a root), and a
\* change of name and slug
UpdateParentData ==
    {"parent_id" :> p : p \in {NewCategoryIds[1], NewCategoryIds[2], UUID("c9"), None}}
UpdateData == UpdateParentData \cup {[name |-> "B", slug |-> "b"]}
\* the columns an open transaction has written in a row
NoPendingCategory == [set |-> {}, name |-> "", slug |-> "", parent_id |-> None,
                      set_deleted |-> FALSE]
\* the Category objects a session holds, each with the parent_id it was loaded
\* with
NoCategories == <<>>
NoCategoryCtx ==
    [category_id |-> None, data |-> <<>>, current_id |-> None,
     name |-> "", slug |-> "", parent_id |-> None, obs |-> None, session |-> NoCategories]

\* a message is kept as the parts the f-string puts together
DomainException(status_code, message, details) ==
    [status_code |-> status_code, message |-> message, details |-> details]
CategoryNotFoundError(category_id) ==
    DomainException(HTTP_404_NOT_FOUND,
                    <<"Category with ID ", str(category_id), " not found">>,
                    [category_id |-> str(category_id)])
CategorySlugAlreadyExistsError(slug) ==
    DomainException(HTTP_409_CONFLICT,
                    <<"Category with slug '", slug, "' already exists">>,
                    [slug |-> slug, field |-> "slug"])
CategoryNameAlreadyExistsError(name, parent_id) ==
    DomainException(HTTP_409_CONFLICT,
                    <<"Category with name '", name, "' already exists in this parent category">>,
                    IF parent_id # None
                    THEN [name |-> name, field |-> "name", parent_id |-> str(parent_id)]
                    ELSE [name |-> name, field |-> "name"])
CircularCategoryDependencyError(category_id, parent_id) ==
    DomainException(HTTP_400_BAD_REQUEST,
                    <<"Cannot set parent category: this would create a circular dependency">>,
                    [category_id |-> str(category_id), parent_id |-> str(parent_id)])
CategorySelfParentError(category_id) ==
    DomainException(HTTP_400_BAD_REQUEST,
                    <<"Category cannot be its own parent">>,
                    [category_id |-> str(category_id)])
\* main.py integrity_error_handler on a unique index of categories
CategoryIntegrityError ==
    DomainException(IntegrityConflict.status_code, <<IntegrityConflict.detail>>,
                    [constraint_type |-> "unique_violation"])
\* CategoryResponse.model_validate(None) fails and the request is answered 500
CategoryValidationError ==
    DomainException(InternalServerError.status_code, <<InternalServerError.detail>>, <<>>)

\* a categories row as r sees it
CategoryRow(r, c) ==
    LET mine == categories[c].xlock = r /\ r # NoTx
    IN  [name |-> IF mine /\ "name" \in categories[c].pending.set
                  THEN categories[c].pending.name
                  ELSE categories[c].name,
         slug |-> IF mine /\ "slug" \in categories[c].pending.set
                  THEN categories[c].pending.slug
                  ELSE categories[c].slug,
         parent_id |-> IF mine /\ "parent_id" \in categories[c].pending.set
                       THEN categories[c].pending.parent_id
                       ELSE categories[c].parent_id,
         is_deleted |-> categories[c].is_deleted
                          \/ (mine /\ categories[c].pending.set_deleted)]

\* categories rows r sees: the committed ones and those it inserted
VisibleCategories(r) ==
    {c \in DOMAIN categories : categories[c].xmin = NoTx \/ categories[c].xmin = r}

\* BaseRepository.get_by_id on categories, include_deleted = False
category_get_by_id(r, id) ==
    {c \in VisibleCategories(r) : c = id /\ ~CategoryRow(r, c).is_deleted}

\* The rows a SELECT returns become objects of the session; a row whose
\* object the session holds already gives that object, with the attributes it
\* was first loaded with.
Loaded(r, held, rows) ==
    held @@ [c \in rows \ DOMAIN held |-> CategoryRow(r, c).parent_id]

\* What get_by_id adds to the session when it has found row id: the row and
\* nothing else.  Category.parent and Category.children are lazy="selectin"
\* without join_depth, and an eager load stops at a relationship whose target
\* is the class it started from, so neither is loaded.
LoadCategory(r, session, id) == Loaded(r, session, {id})

\* CategoryRepository.slug_exists
slug_exists(r, slug, exclude_category_id) ==
    \E c \in VisibleCategories(r) :
        /\ CategoryRow(r, c).slug = slug
        /\ ~CategoryRow(r, c).is_deleted
        /\ c # exclude_category_id

\* CategoryRepository.name_exists_in_parent
name_exists_in_parent(r, name, parent_id, exclude_category_id) ==
    \E c \in VisibleCategories(r) :
        /\ CategoryRow(r, c).name = name
        /\ ~CategoryRow(r, c).is_deleted
        /\ CategoryRow(r, c).parent_id = parent_id
        /\ c # exclude_category_id

\* The versions of the rows other than c that a unique index holds for r's
\* INSERT or UPDATE: the committed version of a row, with the open transaction
\* that is writing the row, and the version an open transaction has written.
\* r's own version of a row stands for the row.
IndexVersions(r, c) ==
    UNION {
        IF categories[d].xmin = r \/ categories[d].xlock = r
        THEN {[row |-> CategoryRow(r, d), writer |-> NoTx]}
        ELSE (IF categories[d].xmin = NoTx
              THEN {[row |-> CategoryRow(NoTx, d), writer |-> categories[d].xlock]}
              ELSE {[row |-> CategoryRow(NoTx, d), writer |-> categories[d].xmin]})
             \cup
             (IF categories[d].xmin = NoTx /\ categories[d].xlock # NoTx
              THEN {[row |-> CategoryRow(categories[d].xlock, d),
                     writer |-> categories[d].xlock]}
              ELSE {}) :
        d \in DOMAIN categories \ {c}}

\* ix_category_slug: unique on slug where is_deleted = false
SlugConflicts(r, c, slug) ==
    {v \in IndexVersions(r, c) : ~v.row.is_deleted /\ v.row.slug = slug}

\* ix_category_parent_name: unique on (parent_id, name) where is_deleted =
\* false; rows with parent_id NULL never conflict
NameConflicts(r, c, name, parent_id) ==
    {v \in IndexVersions(r, c) :
        /\ parent_id # None
        /\ ~v.row.is_deleted
        /\ v.row.name = name
        /\ v.row.parent_id = parent_id}

\* a version that is there for good violates the index; one written by an open
\* transaction makes the statement wait for that transaction
IndexViolation(versions) == \E v \in versions : v.writer = NoTx
IndexMustWait(versions) == ~IndexViolation(versions) /\ versions # {}

\* the ORM's UPDATE categories ... WHERE id = :id waits for the row's writer
CategoryRowLocked(r, c) == categories[c].xlock # NoTx /\ categories[c].xlock # r

\* session.commit(): r's versions become the committed ones
CommitCategories(r) ==
    [c \in DOMAIN categories |->
        IF categories[c].xmin = r \/ categories[c].xlock = r
        THEN [categories[c] EXCEPT !.name = CategoryRow(r, c).name,
                                   !.slug = CategoryRow(r, c).slug,
                                   !.parent_id = CategoryRow(r, c).parent_id,
                                   !.is_deleted = CategoryRow(r, c).is_deleted,
                                   !.xmin = NoTx,
                                   !.xlock = NoTx,
                                   !.pending = NoPendingCategory]
        ELSE categories[c]]

\* session.rollback(): r's versions are dropped
RollbackCategories(r) ==
    [c \in {d \in DOMAIN categories : categories[d].xmin # r} |->
        IF categories[c].xlock = r
        THEN [categories[c] EXCEPT !.xlock = NoTx, !.pending = NoPendingCategory]
        ELSE categories[c]]

\* the ancestors of a category in a table: its parent, the parent of that, ...
RECURSIVE AncestorsWithin(_, _, _)
AncestorsWithin(table, id, steps) ==
    IF steps = 0 \/ id \notin DOMAIN table \/ table[id].parent_id = None THEN {}
    ELSE {table[id].parent_id} \cup AncestorsWithin(table, table[id].parent_id, steps - 1)

Ancestors(table, id) == AncestorsWithin(table, id, Cardinality(DOMAIN table))

\* the columns of the committed categories rows
CategoryColumns(table) ==
    [c \in {d \in DOMAIN table : table[d].xmin = NoTx} |->
        [name |-> table[c].name, slug |-> table[c].slug,
         parent_id |-> table[c].parent_id, is_deleted |-> table[c].is_deleted]]

CategoryResponse(op, status_code, message, body, obs) ==
    [op |-> op, status_code |-> status_code, message |-> message, body |-> body, obs |-> obs,
     changed |-> CategoryColumns(categories') # CategoryColumns(categories)]

\* the handler raises: get_db rolls the session back
CategoryRaise(r, op, exc, obs) ==
    /\ categories' = RollbackCategories(r)
    /\ pc' = [pc EXCEPT ![r] = "idle"]
    /\ req' = [req EXCEPT ![r] = None]
    /\ ctx' = [ctx EXCEPT ![r] = NoCtx]
    /\ response' = CategoryResponse(op, exc.status_code, exc.message, None, obs)

\* the handler returns: get_db commits the session
CategoryReturn(r, status_code, body) ==
    /\ categories' = CommitCategories(r)
    /\ pc' = [pc EXCEPT ![r] = "idle"]
    /\ req' = [req EXCEPT ![r] = None]
    /\ ctx' = [ctx EXCEPT ![r] = NoCtx]
    /\ response' = CategoryResponse(req[r].op, status_code, <<>>, body, ctx[r].obs)

\* the handler goes on to its next statement
CategoryGoto(r, label) ==
    /\ pc' = [pc EXCEPT ![r] = label]
    /\ response' = None
    /\ UNCHANGED <<categories, req, ctx>>

\* requests that will still insert a categories row
Creating == {r \in Reqs : pc[r] \in {"create_category_name", "create_category_parent",
                                      "create_category_create"}}
CanCreate == Cardinality(DOMAIN categories) + Cardinality(Creating) < MaxCategories

\* create_category(data): slug_exists(data.slug)
CreateCategory(r, data, parent_id) ==
    /\ MayBegin(r)
    /\ CanCreate
    /\ IF slug_exists(r, data.slug, None)
       THEN CategoryRaise(r, "create_category", CategorySlugAlreadyExistsError(data.slug), None)
       ELSE /\ Goto(r, "create_category_name",
                    [op |-> "create_category", name |-> data.name, slug |-> data.slug,
                     parent_id |-> parent_id],
                    NoCategoryCtx)
            /\ UNCHANGED categories
    /\ UNCHANGED <<now, users, tokens, nextId, issued, rotCount, pwHist, loggedOutAll>>
    /\ UNCHANGED <<quota, products, stock0, calls, updates>>

\* name_exists_in_parent(data.name, data.parent_id)
CreateCategoryName(r) ==
    /\ pc[r] = "create_category_name"
    /\ IF name_exists_in_parent(r, req[r].name, req[r].parent_id, None)
       THEN CategoryRaise(r, "create_category",
                          CategoryNameAlreadyExistsError(req[r].name, req[r].parent_id), None)
       ELSE CategoryGoto(r, IF req[r].parent_id # None
                            THEN "create_category_parent"
                            ELSE "create_category_create")
    /\ UNCHANGED <<now, users, tokens, nextId, issued, rotCount, pwHist, loggedOutAll>>
    /\ UNCHANGED <<quota, products, stock0, calls, updates>>

\* if data.parent_id: get_by_id(data.parent_id)
CreateCategoryParent(r) ==
    /\ pc[r] = "create_category_parent"
    /\ IF category_get_by_id(r, req[r].parent_id) = {}
       THEN CategoryRaise(r, "create_category", CategoryNotFoundError(req[r].parent_id), None)
       ELSE CategoryGoto(r, "create_category_create")
    /\ UNCHANGED <<now, users, tokens, nextId, issued, rotCount, pwHist, loggedOutAll>>
    /\ UNCHANGED <<quota, products, stock0, calls, updates>>

\* category_repo.create: flush emits the INSERT, which the unique indexes
\* check, and refresh reads the row back; the row stays uncommitted
CreateCategoryCreate(r) ==
    /\ pc[r] = "create_category_create"
    /\ LET id == NewCategoryIds[Cardinality(DOMAIN categories) + 1]
           versions == SlugConflicts(r, id, req[r].slug)
                         \cup NameConflicts(r, id, req[r].name, req[r].parent_id)
       IN  /\ ~IndexMustWait(versions)
           /\ IF IndexViolation(versions)
              THEN CategoryRaise(r, "create_category", CategoryIntegrityError, None)
              ELSE /\ categories' = categories @@
                                      (id :> [name |-> req[r].name, slug |-> req[r].slug,
                                              parent_id |-> req[r].parent_id,
                                              is_deleted |-> FALSE,
                                              xmin |-> r, xlock |-> NoTx,
                                              pending |-> NoPendingCategory])
                   /\ pc' = [pc EXCEPT ![r] = "create_category_commit"]
                   /\ ctx' = [ctx EXCEPT ![r].category_id = id]
                   /\ response' = None
                   /\ UNCHANGED req
    /\ UNCHANGED <<now, users, tokens, nextId, issued, rotCount, pwHist, loggedOutAll>>
    /\ UNCHANGED <<quota, products, stock0, calls, updates>>

\* create_category returns the category, get_db commits
CreateCategoryCommit(r) ==
    /\ pc[r] = "create_category_commit"
    /\ CategoryReturn(r, HTTP_201_CREATED,
                      [id |-> ctx[r].category_id] @@ CategoryRow(r, ctx[r].category_id))
    /\ UNCHANGED <<now, users, tokens, nextId, issued, rotCount, pwHist, loggedOutAll>>
    /\ UNCHANGED <<quota, products, stock0, calls, updates>>

\* the value update_data.get(key, loaded) gives
DataGet(data, key, loaded) == IF key \in DOMAIN data THEN data[key] ELSE loaded

\* what update_category is answered in: the committed hierarchy when it begins
UpdateCategoryObs(category_id, data) ==
    LET moved == "parent_id" \in DOMAIN data
    IN  [category_id |-> category_id,
         data |-> data,
         found |-> category_get_by_id(NoTx, category_id) # {},
         self_parent |-> moved /\ data.parent_id = category_id,
         descendant |-> moved /\ category_id \in Ancestors(categories, data.parent_id)]

\* the statement update_category goes on with after the slug test
AfterSlug(data) ==
    IF "name" \in DOMAIN data \/ "parent_id" \in DOMAIN data
    THEN "update_category_name"
    ELSE "update_category_get"

\* update_category(category_id, data): get_by_id(category_id) loads the
\* category, which the handler holds to its end; the slug is looked up only
\* when data bring one that differs from the one loaded
UpdateCategory(r, category_id, data) ==
    /\ MayBegin(r)
    /\ updates < MaxCategoryUpdates
    /\ updates' = updates + 1
    /\ IF category_get_by_id(r, category_id) = {}
       THEN CategoryRaise(r, "update_category", CategoryNotFoundError(category_id),
                          UpdateCategoryObs(category_id, data))
       ELSE LET category == CategoryRow(r, category_id)
            IN  /\ Goto(r,
                        IF "slug" \in DOMAIN data /\ data.slug # category.slug
                        THEN "update_category_slug"
                        ELSE AfterSlug(data),
                        [op |-> "update_category"],
                        [NoCategoryCtx EXCEPT !.category_id = category_id,
                                              !.data = data,
                                              !.name = category.name,
                                              !.slug = category.slug,
                                              !.parent_id = category.parent_id,
                                              !.obs = UpdateCategoryObs(category_id, data),
                                              !.session =
                                                  LoadCategory(r, NoCategories, category_id)])
                /\ UNCHANGED categories
    /\ UNCHANGED <<now, users, tokens, nextId, issued, rotCount, pwHist, loggedOutAll>>
    /\ UNCHANGED <<quota, products, stock0, calls>>

\* slug_exists(update_data["slug"], exclude_category_id=category_id)
UpdateCategorySlug(r) ==
    /\ pc[r] = "update_category_slug"
    /\ IF slug_exists(r, ctx[r].data.slug, ctx[r].category_id)
       THEN CategoryRaise(r, "update_category",
                          CategorySlugAlreadyExistsError(ctx[r].data.slug), ctx[r].obs)
       ELSE CategoryGoto(r, AfterSlug(ctx[r].data))
    /\ UNCHANGED <<now, users, tokens, nextId, issued, rotCount, pwHist, loggedOutAll>>
    /\ UNCHANGED <<quota, products, stock0, calls, updates>>

\* name_exists_in_parent(new_name, new_parent_id, exclude_category_id), where
\* a value data do not bring is the one loaded, and, when data bring
\* parent_id, the test new_parent_id == category_id that follows it
UpdateCategoryName(r) ==
    /\ pc[r] = "update_category_name"
    /\ LET data == ctx[r].data
           new_name == DataGet(data, "name", ctx[r].name)
           new_parent_id == DataGet(data, "parent_id", ctx[r].parent_id)
       IN  IF name_exists_in_parent(r, new_name, new_parent_id, ctx[r].category_id)
           THEN CategoryRaise(r, "update_category",
                              CategoryNameAlreadyExistsError(new_name, new_parent_id),
                              ctx[r].obs)
           ELSE IF "parent_id" \in DOMAIN data /\ data.parent_id = ctx[r].category_id
           THEN CategoryRaise(r, "update_category",
                              CategorySelfParentError(ctx[r].category_id), ctx[r].obs)
           ELSE CategoryGoto(r, IF "parent_id" \in DOMAIN data /\ data.parent_id # None
                                THEN "update_category_parent"
                                ELSE "update_category_get")
    /\ UNCHANGED <<now, users, tokens, nextId, issued, rotCount, pwHist, loggedOutAll>>
    /\ UNCHANGED <<quota, products, stock0, calls, updates>>

\* get_by_id(new_parent_id) loads the new parent, which the handler holds to
\* its end; _creates_circular_dependency begins with current_id =
\* new_parent_id, which is not category_id
UpdateCategoryParent(r) ==
    /\ pc[r] = "update_category_parent"
    /\ IF category_get_by_id(r, ctx[r].data.parent_id) = {}
       THEN CategoryRaise(r, "update_category",
                          CategoryNotFoundError(ctx[r].data.parent_id), ctx[r].obs)
       ELSE /\ pc' = [pc EXCEPT ![r] = "update_category_walk"]
            /\ ctx' = [ctx EXCEPT ![r].current_id = ctx[r].data.parent_id,
                                  ![r].session = LoadCategory(r, ctx[r].session,
                                                              ctx[r].data.parent_id)]
            /\ response' = None
            /\ UNCHANGED <<categories, req>>
    /\ UNCHANGED <<now, users, tokens, nextId, issued, rotCount, pwHist, loggedOutAll>>
    /\ UNCHANGED <<quota, products, stock0, calls, updates>>

\* one turn of the while loop of _creates_circular_dependency: get_by_id of
\* current_id, current_id = current_category.parent_id, and the tests of the
\* next turn (while current_id; current_id == category_id).  get_by_id selects
\* the row anew; for an object the handler holds (category and parent) the
\* SELECT gives that object with the parent_id it was loaded with, and any
\* other row is loaded as it is now: the session refers to its objects weakly,
\* and the loop lets go of current_category when it assigns the next one.
UpdateCategoryWalk(r) ==
    /\ pc[r] = "update_category_walk"
    /\ LET found == category_get_by_id(r, ctx[r].current_id)
           next_id == IF found = {} THEN None
                      ELSE LoadCategory(r, ctx[r].session,
                                        ctx[r].current_id)[ctx[r].current_id]
       IN  IF next_id = ctx[r].category_id
           THEN CategoryRaise(r, "update_category",
                              CircularCategoryDependencyError(ctx[r].category_id,
                                                              ctx[r].data.parent_id),
                              ctx[r].obs)
           ELSE /\ pc' = [pc EXCEPT ![r] = IF next_id = None
                                           THEN "update_category_get"
                                           ELSE "update_category_walk"]
                /\ ctx' = [ctx EXCEPT ![r].current_id = next_id]
                /\ response' = None
                /\ UNCHANGED <<req, categories>>
    /\ UNCHANGED <<now, users, tokens, nextId, issued, rotCount, pwHist, loggedOutAll>>
    /\ UNCHANGED <<quota, products, stock0, calls, updates>>

\* category_repo.update: get_by_id selects the row again; update returns None
\* when it has been deleted since, which CategoryResponse.model_validate refuses
UpdateCategoryGet(r) ==
    /\ pc[r] = "update_category_get"
    /\ IF category_get_by_id(r, ctx[r].category_id) = {}
       THEN CategoryRaise(r, "update_category", CategoryValidationError, ctx[r].obs)
       ELSE CategoryGoto(r, "update_category_flush")
    /\ UNCHANGED <<now, users, tokens, nextId, issued, rotCount, pwHist, loggedOutAll>>
    /\ UNCHANGED <<quota, products, stock0, calls, updates>>

\* setattr and flush: with no field in data no attribute is set and flush
\* emits no statement; the request neither waits nor writes, and refresh reads
\* the row.  Otherwise the UPDATE waits for the row's writer; it sets the
\* columns of data whose value differs from the one this session has loaded,
\* and updated_at in any case.  The row is written by id, also when it has been
\* soft-deleted since get_by_id.  A unique index is checked when the row gets
\* a new key in it, and a soft-deleted row is in neither index.
UpdateCategoryFlush(r) ==
    /\ pc[r] = "update_category_flush"
    /\ DOMAIN ctx[r].data # {} => ~CategoryRowLocked(r, ctx[r].category_id)
    /\ LET data == ctx[r].data
           loaded == [name |-> ctx[r].name, slug |-> ctx[r].slug,
                      parent_id |-> ctx[r].parent_id]
           set == {key \in DOMAIN data : data[key] # loaded[key]}
           old == CategoryRow(r, ctx[r].category_id)
           new == [key \in {"name", "slug", "parent_id"} |->
                      IF key \in set THEN data[key] ELSE old[key]]
           versions ==
               IF old.is_deleted THEN {}
               ELSE (IF new.slug # old.slug
                     THEN SlugConflicts(r, ctx[r].category_id, new.slug)
                     ELSE {})
                    \cup
                    (IF new.name # old.name \/ new.parent_id # old.parent_id
                     THEN NameConflicts(r, ctx[r].category_id, new.name, new.parent_id)
                     ELSE {})
       IN  /\ DOMAIN data # {} => ~IndexMustWait(versions)
           /\ IF DOMAIN data = {}
              THEN CategoryGoto(r, "update_category_commit")
              ELSE IF IndexViolation(versions)
              THEN CategoryRaise(r, "update_category", CategoryIntegrityError, ctx[r].obs)
              ELSE /\ categories' =
                         [categories EXCEPT
                            ![ctx[r].category_id].xlock = r,
                            ![ctx[r].category_id].pending =
                                [set |-> set,
                                 name |-> IF "name" \in set THEN data.name ELSE "",
                                 slug |-> IF "slug" \in set THEN data.slug ELSE "",
                                 parent_id |-> IF "parent_id" \in set
                                               THEN data.parent_id ELSE None,
                                 set_deleted |-> FALSE]]
                   /\ pc' = [pc EXCEPT ![r] = "update_category_commit"]
                   /\ response' = None
                   /\ UNCHANGED <<req, ctx>>
    /\ UNCHANGED <<now, users, tokens, nextId, issued, rotCount, pwHist, loggedOutAll>>
    /\ UNCHANGED <<quota, products, stock0, calls, updates>>

\* refresh reads the row back, update_category returns it, get_db commits
UpdateCategoryCommit(r) ==
    /\ pc[r] = "update_category_commit"
    /\ CategoryReturn(r, HTTP_200_OK,
                      [id |-> ctx[r].category_id] @@ CategoryRow(r, ctx[r].category_id))
    /\ UNCHANGED <<now, users, tokens, nextId, issued, rotCount, pwHist, loggedOutAll>>
    /\ UNCHANGED <<quota, products, stock0, calls, updates>>

\* delete_category(category_id): get_by_id(category_id)
DeleteCategory(r, category_id) ==
    /\ MayBegin(r)
    /\ IF category_get_by_id(r, category_id) = {}
       THEN CategoryRaise(r, "delete_category", CategoryNotFoundError(category_id), None)
       ELSE /\ Goto(r, "delete_category_get", [op |-> "delete_category"],
                    [NoCategoryCtx EXCEPT !.category_id = category_id])
            /\ UNCHANGED categories
    /\ UNCHANGED <<now, users, tokens, nextId, issued, rotCount, pwHist, loggedOutAll>>
    /\ UNCHANGED <<quota, products, stock0, calls, updates>>

\* category_repo.soft_delete: get_by_id selects the row again and soft_delete
\* returns False when there is none, which delete_category does not look at
DeleteCategoryGet(r) ==
    /\ pc[r] = "delete_category_get"
    /\ IF category_get_by_id(r, ctx[r].category_id) = {}
       THEN CategoryReturn(r, HTTP_200_OK, None)
       ELSE CategoryGoto(r, "delete_category_flush")
    /\ UNCHANGED <<now, users, tokens, nextId, issued, rotCount, pwHist, loggedOutAll>>
    /\ UNCHANGED <<quota, products, stock0, calls, updates>>

\* flush: UPDATE categories SET is_deleted = true WHERE id = :id, which waits
\* for the row's writer
DeleteCategoryFlush(r) ==
    /\ pc[r] = "delete_category_flush"
    /\ ~CategoryRowLocked(r, ctx[r].category_id)
    /\ categories' = [categories EXCEPT ![ctx[r].category_id].xlock = r,
                                        ![ctx[r].category_id].pending.set_deleted = TRUE]
    /\ pc' = [pc EXCEPT ![r] = "delete_category_commit"]
    /\ response' = None
    /\ UNCHANGED <<req, ctx>>
    /\ UNCHANGED <<now, users, tokens, nextId, issued, rotCount, pwHist, loggedOutAll>>
    /\ UNCHANGED <<quota, products, stock0, calls, updates>>

\* delete_category returns None, get_db commits
DeleteCategoryCommit(r) ==
    /\ pc[r] = "delete_category_commit"
    /\ CategoryReturn(r, HTTP_200_OK, None)
    /\ UNCHANGED <<now, users, tokens, nextId, issued, rotCount, pwHist, loggedOutAll>>
    /\ UNCHANGED <<quota, products, stock0, calls, updates>>

----------------------------------------------------------------------------
(* ProductService.create_product *)

\* the slugs, SKUs and stock quantities create_product is called with; a SKU
\* is optional and may be the empty string
ProductSlugs == {"p1", "p2"}
Skus == {None, JsonStr(""), JsonStr("s1")}
CreateStocks == {0, 3}
ProductData == [slug : ProductSlugs, sku : Skus, stock_quantity : CreateStocks]
\* the categories create_product is called with
ProductCategoryIds == {NewCategoryIds[1], UUID("c9")}

ProductCategoryNotFound(category_id) ==
    HTTPException(HTTP_404_NOT_FOUND, <<"Category with id ", str(category_id), " not found">>)
ProductSlugAlreadyExists(slug) ==
    HTTPException(HTTP_409_CONFLICT, <<"Product with slug '", slug, "' already exists">>)
ProductSkuAlreadyExists(sku) ==
    HTTPException(HTTP_409_CONFLICT, <<"Product with SKU '", sku.str, "' already exists">>)

\* `data.sku and ...`: None and the empty string are false
Truthy(sku) == sku # None /\ sku # JsonStr("")

\* The versions of the products rows other than c that a unique index holds for
\* r's INSERT or UPDATE: the committed version of a row, with the open
\* transaction that is writing the row, and the version an open transaction
\* has written. r's own version of a row stands for the row.
ProductVersions(r, c) ==
    UNION {
        IF products[d].xmin = r \/ products[d].xlock = r
        THEN {[row |-> ProductRow(r, d), writer |-> NoTx]}
        ELSE (IF products[d].xmin = NoTx
              THEN {[row |-> ProductRow(NoTx, d), writer |-> products[d].xlock]}
              ELSE {[row |-> ProductRow(NoTx, d), writer |-> products[d].xmin]})
             \cup
             (IF products[d].xmin = NoTx /\ products[d].xlock # NoTx
              THEN {[row |-> ProductRow(products[d].xlock, d),
                     writer |-> products[d].xlock]}
              ELSE {}) :
        d \in DOMAIN products \ {c}}

\* ix_product_slug: unique on slug where is_deleted = false
ProductSlugConflicts(r, c, slug) ==
    {v \in ProductVersions(r, c) : ~v.row.is_deleted /\ v.row.slug = slug}

\* ix_product_sku: unique on sku where sku IS NOT NULL and is_deleted = false
ProductSkuConflicts(r, c, sku) ==
    {v \in ProductVersions(r, c) : sku # None /\ ~v.row.is_deleted /\ v.row.sku = sku}

\* ProductResponse.model_validate(product)
ProductResponse(r, id) ==
    [id |-> id, slug |-> ProductRow(r, id).slug, sku |-> ProductRow(r, id).sku,
     stock_quantity |-> StockSeen(r, id)]

\* the handler raises: get_db rolls the session back and the error is returned
ProductRaise(r, op, exc) ==
    /\ products' = RollbackProducts(r)
    /\ pc' = [pc EXCEPT ![r] = "idle"]
    /\ req' = [req EXCEPT ![r] = None]
    /\ ctx' = [ctx EXCEPT ![r] = NoCtx]
    /\ response' = [op |-> op, status_code |-> exc.status_code, detail |-> exc.detail,
                    body |-> None, created |-> {}]

\* the handler goes on to its next statement
ProductGoto(r, label) ==
    /\ pc' = [pc EXCEPT ![r] = label]
    /\ response' = None
    /\ UNCHANGED <<products, req, ctx>>

\* requests that will still insert a products row
CreatingProduct == {r \in Reqs : pc[r] \in {"create_product_slug", "create_product_sku",
                                             "create_product_create"}}
CanCreateProduct == Cardinality(DOMAIN products) + Cardinality(CreatingProduct) < MaxProducts

\* create_product(data): category_repo.get_by_id(data.category_id)
CreateProduct(r, data, category_id) ==
    /\ MayBegin(r)
    /\ CanCreateProduct
    /\ IF category_get_by_id(r, category_id) = {}
       THEN ProductRaise(r, "create_product", ProductCategoryNotFound(category_id))
       ELSE /\ Goto(r, "create_product_slug",
                    [op |-> "create_product", slug |-> data.slug, sku |-> data.sku,
                     stock_quantity |-> data.stock_quantity, category_id |-> category_id],
                    [product_id |-> None])
            /\ UNCHANGED products
    /\ UNCHANGED <<quota, stock0, calls>>
    /\ UNCHANGED sessionVars

\* product_repo.slug_exists(data.slug); the SKU is looked up only when
\* data.sku is true
CreateProductSlug(r) ==
    /\ pc[r] = "create_product_slug"
    /\ IF product_slug_exists(r, req[r].slug, None)
       THEN ProductRaise(r, "create_product", ProductSlugAlreadyExists(req[r].slug))
       ELSE ProductGoto(r, IF Truthy(req[r].sku)
                           THEN "create_product_sku"
                           ELSE "create_product_create")
    /\ UNCHANGED <<quota, stock0, calls>>
    /\ UNCHANGED sessionVars

\* product_repo.sku_exists(data.sku)
CreateProductSku(r) ==
    /\ pc[r] = "create_product_sku"
    /\ IF sku_exists(r, req[r].sku, None)
       THEN ProductRaise(r, "create_product", ProductSkuAlreadyExists(req[r].sku))
       ELSE ProductGoto(r, "create_product_create")
    /\ UNCHANGED <<quota, stock0, calls>>
    /\ UNCHANGED sessionVars

\* product_repo.create: flush emits the INSERT, which the unique indexes
\* check, and refresh reads the row back; the row stays uncommitted
CreateProductCreate(r) ==
    /\ pc[r] = "create_product_create"
    /\ LET id == NewProductIds[Cardinality(DOMAIN products \ ProductIds) + 1]
           versions == ProductSlugConflicts(r, id, req[r].slug)
                         \cup ProductSkuConflicts(r, id, req[r].sku)
       IN  /\ ~IndexMustWait(versions)
           /\ IF IndexViolation(versions)
              THEN ProductRaise(r, "create_product", IntegrityConflict)
              ELSE /\ products' = products @@
                                    (id :> [slug |-> req[r].slug, sku |-> req[r].sku,
                                            stock_quantity |-> req[r].stock_quantity,
                                            is_deleted |-> FALSE,
                                            xmin |-> r, xlock |-> NoTx,
                                            pending |-> NoPendingStock])
                   /\ pc' = [pc EXCEPT ![r] = "create_product_commit"]
                   /\ ctx' = [ctx EXCEPT ![r].product_id = id]
                   /\ response' = None
                   /\ UNCHANGED req
    /\ UNCHANGED <<quota, stock0, calls>>
    /\ UNCHANGED sessionVars

\* create_product returns the product, the route answers 201, get_db commits
CreateProductCommit(r) ==
    /\ pc[r] = "create_product_commit"
    /\ products' = CommitProducts(r)
    /\ pc' = [pc EXCEPT ![r] = "idle"]
    /\ req' = [req EXCEPT ![r] = None]
    /\ ctx' = [ctx EXCEPT ![r] = NoCtx]
    /\ response' = [op |-> "create_product", status_code |-> HTTP_201_CREATED, detail |-> "",
                    body |-> ProductResponse(r, ctx[r].product_id),
                    created |-> {ctx[r].product_id}]
    /\ UNCHANGED <<quota, stock0, calls>>
    /\ UNCHANGED sessionVars


----------------------------------------------------------------------------
(* ProductService.update_product *)

\* the values update_product sets stock_quantity to (ProductUpdate: ge=0)
StockQuantities == {0, 3}

\* data.model_dump(exclude_unset=True): the fields the request has set, of
\* stock_quantity, slug, sku and category_id
UpdateProductData ==
    {"stock_quantity" :> q : q \in StockQuantities}
      \cup {"category_id" :> c : c \in ProductCategoryIds}
      \cup {[slug |-> "p2"], [sku |-> JsonStr("s1")], [slug |-> "p2", sku |-> JsonStr("")]}

\* the statement update_product goes on to once the category is found:
\* slug_exists when data brings a slug other than the loaded one, sku_exists
\* when it brings a SKU other than the loaded one that is true, else
\* product_repo.update
AfterProductSlug(data, loaded) ==
    IF "sku" \in DOMAIN data /\ data.sku # loaded.sku /\ Truthy(data.sku)
    THEN "update_product_sku"
    ELSE "update_product_update"
AfterProductCategory(data, loaded) ==
    IF "slug" \in DOMAIN data /\ data.slug # loaded.slug
    THEN "update_product_slug"
    ELSE AfterProductSlug(data, loaded)

\* update_product(product_id, data): product_repo.get_by_id(product_id); the
\* session holds the product as it has loaded it.  The call is logged with
\* the change from the stock_quantity it has read.
UpdateProduct(r, product_id, data) ==
    /\ MayBegin(r)
    /\ CanCall
    /\ LET loaded == ProductRow(r, product_id)
       IN  IF product_get_by_id(r, product_id) = {}
           THEN StockRaise(r, "update_product", product_id, 0, ProductNotFound(product_id))
           ELSE /\ pc' = [pc EXCEPT ![r] = IF "category_id" \in DOMAIN data
                                           THEN "update_product_category"
                                           ELSE AfterProductCategory(data, loaded)]
                /\ req' = [req EXCEPT ![r] =
                             [op |-> "update_product",
                              quantity_delta |-> IF "stock_quantity" \in DOMAIN data
                                                 THEN data.stock_quantity
                                                        - loaded.stock_quantity
                                                 ELSE 0]]
                /\ ctx' = [ctx EXCEPT ![r] =
                             [product_id |-> product_id, data |-> data, loaded |-> loaded]]
                /\ response' = None
                /\ UNCHANGED <<products, calls>>
    /\ UNCHANGED <<quota, stock0>>
    /\ UNCHANGED sessionVars

\* the handler goes on to its next statement
UpdateProductGoto(r, label) ==
    /\ pc' = [pc EXCEPT ![r] = label]
    /\ response' = None
    /\ UNCHANGED <<products, req, ctx, calls>>

\* category_repo.get_by_id(update_data["category_id"])
UpdateProductCategory(r) ==
    /\ pc[r] = "update_product_category"
    /\ IF category_get_by_id(r, ctx[r].data.category_id) = {}
       THEN StockRaise(r, "update_product", ctx[r].product_id, req[r].quantity_delta,
                       ProductCategoryNotFound(ctx[r].data.category_id))
       ELSE UpdateProductGoto(r, AfterProductCategory(ctx[r].data, ctx[r].loaded))
    /\ UNCHANGED <<quota, stock0>>
    /\ UNCHANGED sessionVars

\* product_repo.slug_exists(update_data["slug"], exclude_product_id=product_id)
UpdateProductSlug(r) ==
    /\ pc[r] = "update_product_slug"
    /\ IF product_slug_exists(r, ctx[r].data.slug, ctx[r].product_id)
       THEN StockRaise(r, "update_product", ctx[r].product_id, req[r].quantity_delta,
                       ProductSlugAlreadyExists(ctx[r].data.slug))
       ELSE UpdateProductGoto(r, AfterProductSlug(ctx[r].data, ctx[r].loaded))
    /\ UNCHANGED <<quota, stock0>>
    /\ UNCHANGED sessionVars

\* product_repo.sku_exists(update_data["sku"], exclude_product_id=product_id)
UpdateProductSku(r) ==
    /\ pc[r] = "update_product_sku"
    /\ IF sku_exists(r, ctx[r].data.sku, ctx[r].product_id)
       THEN StockRaise(r, "update_product", ctx[r].product_id, req[r].quantity_delta,
                       ProductSkuAlreadyExists(ctx[r].data.sku))
       ELSE UpdateProductGoto(r, "update_product_update")
    /\ UNCHANGED <<quota, stock0>>
    /\ UNCHANGED sessionVars

\* product_repo.update(product_id, **update_data): get_by_id selects the row
\* again; update returns None when the product has been soft-deleted since,
\* and ProductResponse.model_validate(None) fails: the request is answered 500
UpdateProductUpdate(r) ==
    /\ pc[r] = "update_product_update"
    /\ IF product_get_by_id(r, ctx[r].product_id) = {}
       THEN StockRaise(r, "update_product", ctx[r].product_id, req[r].quantity_delta,
                       InternalServerError)
       ELSE UpdateProductGoto(r, "update_product_flush")
    /\ UNCHANGED <<quota, stock0>>
    /\ UNCHANGED sessionVars

\* setattr, flush and refresh: with no field in data no attribute is set and
\* flush emits no statement; the request neither waits nor writes, and refresh
\* reads the row.  Otherwise the before_update listener sets updated_at, so
\* flush emits UPDATE products ... WHERE id = :id, which waits for the row's
\* writer; the statement sets the columns whose new value differs from the
\* value the session has loaded (category_id is not kept by the table of this
\* model).  The UPDATE fails on a unique index when another live row has the
\* new slug or the new SKU, and waits while an open transaction writes such a
\* row; update_product answers the IntegrityError with 409.
UpdateProductFlush(r) ==
    /\ pc[r] = "update_product_flush"
    /\ DOMAIN ctx[r].data # {} => ~ProductRowLocked(r, ctx[r].product_id)
    /\ LET p == ctx[r].product_id
           data == ctx[r].data
           set == {key \in DOMAIN data \ {"category_id"} : data[key] # ctx[r].loaded[key]}
           old == ProductRow(r, p)
           new == [key \in {"slug", "sku"} |-> IF key \in set THEN data[key] ELSE old[key]]
           versions ==
               IF old.is_deleted THEN {}
               ELSE (IF new.slug # old.slug THEN ProductSlugConflicts(r, p, new.slug) ELSE {})
                    \cup
                    (IF new.sku # old.sku THEN ProductSkuConflicts(r, p, new.sku) ELSE {})
       IN  /\ DOMAIN data # {} => ~IndexMustWait(versions)
           /\ IF DOMAIN data = {}
              THEN UpdateProductGoto(r, "update_product_commit")
              ELSE IF IndexViolation(versions)
              THEN StockRaise(r, "update_product", p, req[r].quantity_delta,
                              IntegrityConflict)
              ELSE /\ products' =
                         [products EXCEPT
                            ![p].xlock = r,
                            ![p].pending =
                                [set |-> "stock_quantity" \in set,
                                 stock_quantity |-> IF "stock_quantity" \in set
                                                    THEN data.stock_quantity ELSE 0,
                                 set_deleted |-> FALSE,
                                 cols |-> set \cap {"slug", "sku"},
                                 slug |-> IF "slug" \in set THEN data.slug ELSE "",
                                 sku |-> IF "sku" \in set THEN data.sku ELSE None]]
                   /\ pc' = [pc EXCEPT ![r] = "update_product_commit"]
                   /\ response' = None
                   /\ UNCHANGED <<req, ctx, calls>>
    /\ UNCHANGED <<quota, stock0>>
    /\ UNCHANGED sessionVars

\* ProductResponse.model_validate(updated_product) is returned, get_db commits
UpdateProductCommit(r) ==
    /\ pc[r] = "update_product_commit"
    /\ products' = CommitProducts(r)
    /\ pc' = [pc EXCEPT ![r] = "idle"]
    /\ req' = [req EXCEPT ![r] = None]
    /\ ctx' = [ctx EXCEPT ![r] = NoCtx]
    /\ response' = [op |-> "update_product", status_code |-> HTTP_200_OK, detail |-> "",
                    body |-> ProductResponse(r, ctx[r].product_id),
                    obs |-> StockObs(ctx[r].product_id, req[r].quantity_delta),
                    changed |-> products'[ctx[r].product_id].stock_quantity
                                  # products[ctx[r].product_id].stock_quantity]
    /\ calls' = Append(calls, Call("update_product", ctx[r].product_id,
                                   req[r].quantity_delta, HTTP_200_OK, ""))
    /\ UNCHANGED <<quota, stock0>>
    /\ UNCHANGED sessionVars

----------------------------------------------------------------------------
(* Sessions: login, rotation, logout from all devices, expiry *)

Next ==
    \/ \E r \in Reqs, email \in Emails, password \in TypedPasswords : Login(r, email, password)
    \/ \E r \in Reqs : LoginCreate(r)
    \/ \E r \in Reqs : LoginCommit(r)
    \/ \E r \in Reqs, refresh_token \in issued : RefreshLookup(r, refresh_token)
    \/ \E r \in Reqs : RefreshIsValid(r)
    \/ \E r \in Reqs : RefreshRevoke(r)
    \/ \E r \in Reqs : RefreshCreate(r)
    \/ \E r \in Reqs : RefreshCommit(r)
    \/ \E r \in Reqs, user_id \in AnyUserIds : LogoutAll(r, user_id)
    \/ \E r \in Reqs : LogoutAllCommit(r)
    \/ \E r \in Reqs : RevokeAllWake(r)
    \/ \E d \in TickSteps : Tick(d)

Spec == Init /\ [][Next]_vars

----------------------------------------------------------------------------
(* Rotation: logins, rotations, logouts and expiry, with room for a second *)
(* rotation of a refresh token, after the first or racing with it          *)

InitRotation ==
    /\ InitSessions(TRUE)
    /\ quota = MaxRotationTokens
    /\ InitRequests
    /\ InitProducts(0, FALSE)
    /\ InitCategories

\* the account whose refresh tokens are rotated, and an address of no account
RotationEmails == {"a@x.com", "c@x.com"}

NextRotation ==
    \/ \E r \in Reqs, email \in RotationEmails, password \in TypedPasswords :
          Login(r, email, password)
    \/ \E r \in Reqs : LoginCreate(r)
    \/ \E r \in Reqs : LoginCommit(r)
    \/ \E r \in Reqs, refresh_token \in issued \cup BadSubTokens :
          RefreshLookup(r, refresh_token)
    \/ \E r \in Reqs : RefreshIsValid(r)
    \/ \E r \in Reqs : RefreshRevoke(r)
    \/ \E r \in Reqs : RefreshCreate(r)
    \/ \E r \in Reqs : RefreshCommit(r)
    \/ \E r \in Reqs, refresh_token \in issued \cup UnknownTokens :
          Logout(r, AccessOf(refresh_token), refresh_token)
    \/ \E r \in Reqs : LogoutCommit(r)
    \/ \E d \in TickSteps : Tick(d)

SpecRotation == InitRotation /\ [][NextRotation]_vars

----------------------------------------------------------------------------
(* Devices: the logins and logouts of two users on several devices *)

NextDevices ==
    \/ \E r \in Reqs, email \in Emails, password \in TypedPasswords : Login(r, email, password)
    \/ \E r \in Reqs : LoginCreate(r)
    \/ \E r \in Reqs : LoginCommit(r)
    \/ \E r \in Reqs, refresh_token \in issued \cup UnknownTokens :
          Logout(r, AccessOf(refresh_token), refresh_token)
    \/ \E r \in Reqs : LogoutCommit(r)
    \/ \E d \in TickSteps : Tick(d)

SpecDevices == InitRotation /\ [][NextDevices]_vars

----------------------------------------------------------------------------
(* Activation: logins and rotations while accounts are deactivated and *)
(* activated again                                                      *)

\* the account that is deactivated and renamed, and the id of no account
ActivationEmails == {"b@x.com"}
ActivationIds == {UUID("u2"), UUID("u9")}

NextActivation ==
    \/ \E r \in Reqs, email \in ActivationEmails, password \in TypedPasswords :
          Login(r, email, password)
    \/ \E r \in Reqs : LoginCreate(r)
    \/ \E r \in Reqs : LoginCommit(r)
    \/ \E r \in Reqs, refresh_token \in issued : RefreshLookup(r, refresh_token)
    \/ \E r \in Reqs : RefreshIsValid(r)
    \/ \E r \in Reqs : RefreshRevoke(r)
    \/ \E r \in Reqs : RefreshCreate(r)
    \/ \E r \in Reqs : RefreshCommit(r)
    \/ \E r \in Reqs, user_id \in ActivationIds, is_active \in BOOLEAN :
          SetActive(r, user_id, is_active)
    \/ \E r \in Reqs, user_id \in ActivationIds, first_name \in FirstNames :
          UpdateUser(r, user_id, [first_name |-> first_name])
    \/ \E r \in Reqs, user_id \in ActivationIds : UpdateUser(r, user_id, <<>>)
    \/ \E r \in Reqs : UpdateUserUpdate(r)
    \/ \E r \in Reqs : UserUpdateFlush(r)
    \/ \E r \in Reqs : UserUpdateCommit(r)

SpecActivation == Init /\ [][NextActivation]_vars

----------------------------------------------------------------------------
(* Registration: register, login and delete_user *)

\* the salt of the password hashes of the registrations
RegistrationSalts == {1}

InitRegistration ==
    /\ InitSessions(TRUE)
    /\ quota = MaxTokens
    /\ InitRequests
    /\ InitProducts(0, FALSE)
    /\ InitCategories

NextRegistration ==
    \/ \E r \in Reqs, email \in Emails, password \in RegisterPasswords,
          salt \in RegistrationSalts :
          Register(r, email, password, salt)
    \/ \E r \in Reqs : RegisterCreate(r)
    \/ \E r \in Reqs : RegisterTokens(r)
    \/ \E r \in Reqs : RegisterCommit(r)
    \/ \E r \in Reqs, email \in Emails, password \in TypedPasswords : Login(r, email, password)
    \/ \E r \in Reqs : LoginCreate(r)
    \/ \E r \in Reqs : LoginCommit(r)
    \/ \E r \in Reqs, user_id \in AnyUserIds : DeleteUser(r, user_id)
    \/ \E r \in Reqs : DeleteUserRevoke(r)
    \/ \E r \in Reqs : DeleteUserGet(r)
    \/ \E r \in Reqs : DeleteUserFlush(r)
    \/ \E r \in Reqs : DeleteUserCommit(r)
    \/ \E r \in Reqs : RevokeAllWake(r)

SpecRegistration == InitRegistration /\ [][NextRegistration]_vars

----------------------------------------------------------------------------
(* Issuing: the three operations that hand out a token pair *)

NextIssuing ==
    \/ \E r \in Reqs, email \in Emails, password \in RegisterPasswords, salt \in Salts :
          Register(r, email, password, salt)
    \/ \E r \in Reqs : RegisterCreate(r)
    \/ \E r \in Reqs : RegisterTokens(r)
    \/ \E r \in Reqs : RegisterCommit(r)
    \/ \E r \in Reqs, email \in Emails, password \in TypedPasswords : Login(r, email, password)
    \/ \E r \in Reqs : LoginCreate(r)
    \/ \E r \in Reqs : LoginCommit(r)
    \/ \E r \in Reqs, refresh_token \in issued : RefreshLookup(r, refresh_token)
    \/ \E r \in Reqs : RefreshIsValid(r)
    \/ \E r \in Reqs : RefreshRevoke(r)
    \/ \E r \in Reqs : RefreshCreate(r)
    \/ \E r \in Reqs : RefreshCommit(r)

SpecIssuing == InitRotation /\ [][NextIssuing]_vars

----------------------------------------------------------------------------
(* Codec: tokens are created, time passes, tokens are decoded *)

InitCodec ==
    /\ InitSessions(TRUE)
    /\ quota = MaxTokens
    /\ InitRequests
    /\ InitProducts(0, FALSE)
    /\ InitCategories

NextCodec ==
    \/ \E sub \in CodecSubs : CreateAccessToken(sub)
    \/ \E sub \in CodecSubs : CreateRefreshToken(sub)
    \/ \E token \in issued \cup ForgedTokens : DecodeAccessToken(token)
    \/ \E token \in issued \cup ForgedTokens : DecodeRefreshToken(token)
    \/ \E d \in CodecTickSteps : Tick(d)

SpecCodec == InitCodec /\ [][NextCodec]_vars

----------------------------------------------------------------------------
(* Expiry: session records are created, revoked by requests that carry no *)
(* Authorization header, expire and are swept                              *)

\* the clock steps: to the instant a refresh token expires, and a day past it
ExpiryTickSteps ==
    {REFRESH_TOKEN_EXPIRE_DAYS * MINUTES_PER_DAY,
     (REFRESH_TOKEN_EXPIRE_DAYS + 1) * MINUTES_PER_DAY}
\* the account whose session records are followed
ExpiryIds == {UUID("u1")}
ExpiryEmails == {"a@x.com"}

NextExpiry ==
    \/ \E r \in Reqs, email \in ExpiryEmails, password \in Passwords :
          Login(r, email, password)
    \/ \E r \in Reqs : LoginCreate(r)
    \/ \E r \in Reqs : LoginCommit(r)
    \/ \E r \in Reqs, refresh_token \in issued : RefreshLookup(r, refresh_token)
    \/ \E r \in Reqs : RefreshIsValid(r)
    \/ \E r \in Reqs : RefreshRevoke(r)
    \/ \E r \in Reqs : RefreshCreate(r)
    \/ \E r \in Reqs : RefreshCommit(r)
    \/ \E r \in Reqs, refresh_token \in issued \cup UnknownTokens :
          Logout(r, None, refresh_token)
    \/ \E r \in Reqs : LogoutCommit(r)
    \/ \E d \in ExpiryTickSteps : Tick(d)
    \/ \E r \in Reqs : DeleteExpiredTokens(r)
    \/ \E r \in Reqs : SweepWake(r)
    \/ \E r \in Reqs : RepositoryCommit(r)

SpecExpiry == InitCodec /\ [][NextExpiry]_vars

----------------------------------------------------------------------------
(* Repository: session records are created, revoked, soft-deleted, expire, *)
(* are asked about and are swept                                           *)

\* the requests that create, revoke and soft-delete session records
RepositoryWrites ==
    \/ \E r \in Reqs, email \in ExpiryEmails, password \in Passwords :
          Login(r, email, password)
    \/ \E r \in Reqs : LoginCreate(r)
    \/ \E r \in Reqs : LoginCommit(r)
    \/ \E r \in Reqs, refresh_token \in issued :
          Logout(r, AccessOf(refresh_token), refresh_token)
    \/ \E r \in Reqs : LogoutCommit(r)
    \/ \E r \in Reqs, id \in 1..nextId : SoftDeleteToken(r, id)
    \/ \E r \in Reqs : SoftDeleteTokenFlush(r)
    \/ \E r \in Reqs : RepositoryCommit(r)
    \/ \E d \in ExpiryTickSteps : Tick(d)

NextRepository ==
    \/ RepositoryWrites
    \/ \E token_hash \in KnownHashes : IsTokenValid(token_hash)

SpecRepository == InitCodec /\ [][NextRepository]_vars

\* the records are swept
NextSweep ==
    \/ RepositoryWrites
    \/ \E r \in Reqs : DeleteExpiredTokens(r)
    \/ \E r \in Reqs : SweepWake(r)

SpecSweep == InitCodec /\ [][NextSweep]_vars

\* the repository with its other calls: rows are deleted one by one, the
\* expired rows of one user are swept and the active rows of a user are counted
NextMaintenance ==
    \/ NextRepository
    \/ NextSweep
    \/ \E r \in Reqs, id \in 1..nextId : HardDeleteToken(r, id)
    \/ \E r \in Reqs : HardDeleteTokenFlush(r)
    \/ \E user_id \in ExpiryIds : CountUserActiveTokens(user_id)
    \/ \E r \in Reqs, user_id \in ExpiryIds : CountUserActiveTokensIn(r, user_id)
    \/ \E r \in Reqs, token_hash \in KnownHashes : IsTokenValidIn(r, token_hash)
    \/ \E r \in Reqs, user_id \in ExpiryIds : DeleteUserExpiredTokens(r, user_id)

SpecMaintenance == InitCodec /\ [][NextMaintenance]_vars

\* a request the database fails to end a deadlock
RequestDeadlock(r) ==
    /\ pc[r] \notin {"clear_tokens_wait", "clear_users_wait", "clear_cascade"}
    /\ DeadlockDetected(r)

\* users log in and rotate their sessions while the tables are cleared from the
\* command line
NextClear ==
    \/ \E r \in Reqs, email \in Emails, password \in Passwords : Login(r, email, password)
    \/ \E r \in Reqs : LoginCreate(r)
    \/ \E r \in Reqs : LoginCommit(r)
    \/ \E r \in Reqs, refresh_token \in issued : RefreshLookup(r, refresh_token)
    \/ \E r \in Reqs : RefreshIsValid(r)
    \/ \E r \in Reqs : RefreshRevoke(r)
    \/ \E r \in Reqs : RefreshCreate(r)
    \/ \E r \in Reqs : RefreshCommit(r)
    \/ \E r \in Reqs : RequestDeadlock(r)
    \/ \E r \in Reqs : ClearAllUsersCascade(r)
    \/ \E r \in Reqs : ClearAllUsersDeadlock(r)
    \/ \E r \in Reqs : ClearAllUsers(r)
    \/ \E r \in Reqs : ClearAllUsersWake(r)
    \/ \E r \in Reqs : ClearAllUsersUsers(r)
    \/ \E r \in Reqs : ClearAllUsersUsersWake(r)
    \/ \E r \in Reqs : ClearAllUsersCommit(r)
    \/ \E r \in Reqs : ClearAllUsersCount(r)

SpecClear == InitCodec /\ [][NextClear]_vars

\* passwords are changed, accounts are updated and deleted while the tables are
\* cleared from the command line
NextClearAccount ==
    \/ \E r \in Reqs : ClearAllUsers(r)
    \/ \E r \in Reqs : ClearAllUsersUsers(r)
    \/ \E r \in Reqs : ClearAllUsersUsersWake(r)
    \/ \E r \in Reqs : ClearAllUsersCascade(r)
    \/ \E r \in Reqs : ClearAllUsersCommit(r)
    \/ \E r \in Reqs : ClearAllUsersCount(r)
    \/ \E r \in Reqs, user_id \in {UUID("u2")}, old_password \in Passwords,
          new_password \in Passwords :
            ChangePassword(r, user_id, old_password, new_password, 1)
    \/ \E r \in Reqs : ChangePasswordGet(r)
    \/ \E r \in Reqs : ChangePasswordFlush(r)
    \/ \E r \in Reqs : ChangePasswordRevoke(r)
    \/ \E r \in Reqs : ChangePasswordCommit(r)
    \/ \E r \in Reqs : DeleteUser(r, UUID("u2"))
    \/ \E r \in Reqs : DeleteUserRevoke(r)
    \/ \E r \in Reqs : DeleteUserGet(r)
    \/ \E r \in Reqs : DeleteUserFlush(r)
    \/ \E r \in Reqs : DeleteUserCommit(r)
    \/ \E r \in Reqs, is_active \in BOOLEAN : SetActive(r, UUID("u2"), is_active)
    \/ \E r \in Reqs, first_name \in FirstNames :
          UpdateUser(r, UUID("u2"), [first_name |-> first_name])
    \/ \E r \in Reqs : UpdateUserUpdate(r)
    \/ \E r \in Reqs : UserUpdateFlush(r)
    \/ \E r \in Reqs : UserUpdateCommit(r)

SpecClearAccount == InitCodec /\ [][NextClearAccount]_vars

----------------------------------------------------------------------------
(* Access: access tokens are presented while the sessions of their user are *)
(* revoked, the password is changed, the user is deleted and time passes   *)

MaxMinutes == 16

\* number of token pairs a behaviour of SpecAccess may create
MaxAccessTokens == 1

InitAccess ==
    /\ InitSessions(TRUE)
    /\ quota = MaxAccessTokens
    /\ InitRequests
    /\ InitProducts(0, FALSE)
    /\ InitCategories

\* the step of the clock: the life time of an access token
AccessTickSteps == {ACCESS_TOKEN_EXPIRE_MINUTES}

\* the new password of the change_password calls, and the salt of its hash
AccessNewPasswords == {"Passw0rd2", LongPassword}
AccessSalts == {1}
\* the users change_password is called for: the account and the id of no row
AccessIds == ExpiryIds \cup {UUID("u9")}

AccessTick(d) ==
    /\ now + d <= MaxMinutes
    /\ Tick(d)

NextAccess ==
    \/ \E r \in Reqs, email \in ExpiryEmails, password \in Passwords :
          Login(r, email, password)
    \/ \E r \in Reqs : LoginCreate(r)
    \/ \E r \in Reqs : LoginCommit(r)
    \/ \E r \in Reqs, refresh_token \in issued :
          Logout(r, AccessOf(refresh_token), refresh_token)
    \/ \E r \in Reqs : LogoutCommit(r)
    \/ \E r \in Reqs, user_id \in ExpiryIds : LogoutAll(r, user_id)
    \/ \E r \in Reqs : LogoutAllCommit(r)
    \/ \E r \in Reqs, user_id \in AccessIds, old_password \in Passwords,
          new_password \in AccessNewPasswords, salt \in AccessSalts :
            ChangePassword(r, user_id, old_password, new_password, salt)
    \/ \E r \in Reqs : ChangePasswordGet(r)
    \/ \E r \in Reqs : ChangePasswordFlush(r)
    \/ \E r \in Reqs : ChangePasswordRevoke(r)
    \/ \E r \in Reqs : ChangePasswordCommit(r)
    \/ \E r \in Reqs, user_id \in ExpiryIds : DeleteUser(r, user_id)
    \/ \E r \in Reqs : DeleteUserRevoke(r)
    \/ \E r \in Reqs : DeleteUserGet(r)
    \/ \E r \in Reqs : DeleteUserFlush(r)
    \/ \E r \in Reqs : DeleteUserCommit(r)
    \/ \E r \in Reqs : RevokeAllWake(r)
    \/ \E r \in Reqs : DeadlockDetected(r)
    \/ \E token \in AccessTokens : GetCurrentUser(token)
    \/ \E d \in AccessTickSteps : AccessTick(d)

SpecAccess == InitAccess /\ [][NextAccess]_vars

----------------------------------------------------------------------------
(* Accounts: change_password and delete_user of one user, racing with each *)
(* other and with the logins and rotations of that user                   *)

\* the account the password changes and deletions are aimed at, and no account
AccountIds == {UUID("u2"), UUID("u9")}
\* its e-mail address, and an address of no account
AccountEmails == {"b@x.com", "c@x.com"}

NextAccount ==
    \/ \E r \in Reqs, email \in AccountEmails, password \in TypedPasswords : Login(r, email, password)
    \/ \E r \in Reqs : LoginCreate(r)
    \/ \E r \in Reqs : LoginCommit(r)
    \/ \E r \in Reqs, refresh_token \in issued : RefreshLookup(r, refresh_token)
    \/ \E r \in Reqs : RefreshIsValid(r)
    \/ \E r \in Reqs : RefreshRevoke(r)
    \/ \E r \in Reqs : RefreshCreate(r)
    \/ \E r \in Reqs : RefreshCommit(r)
    \/ \E r \in Reqs, user_id \in AccountIds, old_password \in Passwords,
          new_password \in Passwords, salt \in AccessSalts :
            ChangePassword(r, user_id, old_password, new_password, salt)
    \/ \E r \in Reqs : ChangePasswordGet(r)
    \/ \E r \in Reqs : ChangePasswordFlush(r)
    \/ \E r \in Reqs : ChangePasswordRevoke(r)
    \/ \E r \in Reqs : ChangePasswordCommit(r)
    \/ \E r \in Reqs, user_id \in AccountIds : DeleteUser(r, user_id)
    \/ \E r \in Reqs : DeleteUserRevoke(r)
    \/ \E r \in Reqs : DeleteUserGet(r)
    \/ \E r \in Reqs : DeleteUserFlush(r)
    \/ \E r \in Reqs : DeleteUserCommit(r)
    \/ \E r \in Reqs : RevokeAllWake(r)
    \/ \E r \in Reqs : DeadlockDetected(r)

SpecAccount == Init /\ [][NextAccount]_vars

----------------------------------------------------------------------------
(* Stock: concurrent adjustments of one product *)

InitStock ==
    /\ InitSessions(TRUE)
    /\ quota = MaxTokens
    /\ InitRequests
    /\ \E stock_quantity \in InitialStocks, is_deleted \in BOOLEAN :
          InitProducts(stock_quantity, is_deleted)
    /\ InitCategories

NextStock ==
    \/ \E r \in Reqs, product_id \in AnyProductIds, quantity_delta \in QuantityDeltas :
          UpdateStock(r, product_id, quantity_delta)
    \/ \E r \in Reqs, product_id \in AnyProductIds, quantity \in Quantities :
          IncreaseStock(r, product_id, quantity)
    \/ \E r \in Reqs, product_id \in AnyProductIds, quantity \in Quantities :
          DecreaseStock(r, product_id, quantity)
    \/ \E r \in Reqs : ProductUpdate(r)
    \/ \E r \in Reqs : ProductUpdateFlush(r)
    \/ \E r \in Reqs : UpdateStockCommit(r)

SpecStock == InitStock /\ [][NextStock]_vars

\* the product is also edited and deleted while its stock is adjusted
NextStockMaintenance ==
    \/ NextStock
    \/ \E r \in Reqs, product_id \in AnyProductIds, stock_quantity \in StockQuantities :
          UpdateProduct(r, product_id, "stock_quantity" :> stock_quantity)
    \/ \E r \in Reqs : UpdateProductUpdate(r)
    \/ \E r \in Reqs : UpdateProductFlush(r)
    \/ \E r \in Reqs : UpdateProductCommit(r)
    \/ \E r \in Reqs, product_id \in AnyProductIds : DeleteProduct(r, product_id)
    \/ \E r \in Reqs : DeleteProductGet(r)
    \/ \E r \in Reqs : DeleteProductFlush(r)
    \/ \E r \in Reqs : DeleteProductCommit(r)

SpecStockMaintenance == InitStock /\ [][NextStockMaintenance]_vars

----------------------------------------------------------------------------
(* Categories: create_category and concurrent update_category calls *)

\* three root categories, as three create_category calls leave them
CategoryRoots ==
    [c \in {NewCategoryIds[i] : i \in 1..3} |->
        [name |-> IF c = NewCategoryIds[1] THEN "A"
                  ELSE IF c = NewCategoryIds[2] THEN "B" ELSE "C",
         slug |-> IF c = NewCategoryIds[1] THEN "a"
                  ELSE IF c = NewCategoryIds[2] THEN "b" ELSE "c",
         parent_id |-> None, is_deleted |-> FALSE,
         xmin |-> NoTx, xlock |-> NoTx, pending |-> NoPendingCategory]]

InitCategoryRoots ==
    /\ InitSessions(TRUE)
    /\ quota = MaxTokens
    /\ InitRequests
    /\ InitProducts(0, FALSE)
    /\ categories = CategoryRoots
    /\ updates = 0

CreateCategorySteps ==
    \/ \E r \in Reqs, data \in CategoryData, parent_id \in CreateParentIds :
          CreateCategory(r, data, parent_id)
    \/ \E r \in Reqs : CreateCategoryName(r)
    \/ \E r \in Reqs : CreateCategoryParent(r)
    \/ \E r \in Reqs : CreateCategoryCreate(r)
    \/ \E r \in Reqs : CreateCategoryCommit(r)

\* the steps an update_category request takes after it has begun
UpdateCategoryStep(r) ==
    \/ UpdateCategorySlug(r)
    \/ UpdateCategoryName(r)
    \/ UpdateCategoryParent(r)
    \/ UpdateCategoryWalk(r)
    \/ UpdateCategoryGet(r)
    \/ UpdateCategoryFlush(r)
    \/ UpdateCategoryCommit(r)

UpdateCategorySteps ==
    \/ \E r \in Reqs, category_id \in AnyCategoryIds, data \in UpdateData :
          UpdateCategory(r, category_id, data)
    \/ \E r \in Reqs : UpdateCategorySlug(r)
    \/ \E r \in Reqs : UpdateCategoryName(r)
    \/ \E r \in Reqs : UpdateCategoryParent(r)
    \/ \E r \in Reqs : UpdateCategoryWalk(r)
    \/ \E r \in Reqs : UpdateCategoryGet(r)
    \/ \E r \in Reqs : UpdateCategoryFlush(r)
    \/ \E r \in Reqs : UpdateCategoryCommit(r)

DeleteCategorySteps ==
    \/ \E r \in Reqs, category_id \in AnyCategoryIds : DeleteCategory(r, category_id)
    \/ \E r \in Reqs : DeleteCategoryGet(r)
    \/ \E r \in Reqs : DeleteCategoryFlush(r)
    \/ \E r \in Reqs : DeleteCategoryCommit(r)

\* categories are created and moved
NextCategory == CreateCategorySteps \/ UpdateCategorySteps

SpecCategory == InitCodec /\ [][NextCategory]_vars

\* three root categories are moved; every request that has begun is served:
\* its next round trip is made
SpecCategoryFair ==
    /\ InitCategoryRoots
    /\ [][UpdateCategorySteps]_vars
    /\ \A r \in Reqs : WF_vars(UpdateCategoryStep(r))

\* three root categories are moved and deleted
\* update_category is also called with no field set
NextCategoryMaintenance ==
    \/ UpdateCategorySteps
    \/ DeleteCategorySteps
    \/ \E r \in Reqs, category_id \in AnyCategoryIds : UpdateCategory(r, category_id, <<>>)

SpecCategoryMaintenance == InitCategoryRoots /\ [][NextCategoryMaintenance]_vars

\* the ids delete_product is called with in the catalog: the first product, the
\* first one that is created, and the id of no row
CatalogProductIds == {UUID("p1"), NewProductIds[1], UUID("p9")}

\* products are created and deleted in three root categories, which are
\* deleted
NextCatalog ==
    \/ \E r \in Reqs, data \in ProductData, category_id \in ProductCategoryIds :
          CreateProduct(r, data, category_id)
    \/ \E r \in Reqs : CreateProductSlug(r)
    \/ \E r \in Reqs : CreateProductSku(r)
    \/ \E r \in Reqs : CreateProductCreate(r)
    \/ \E r \in Reqs : CreateProductCommit(r)
    \/ \E r \in Reqs, product_id \in CatalogProductIds : DeleteProduct(r, product_id)
    \/ \E r \in Reqs : DeleteProductGet(r)
    \/ \E r \in Reqs : DeleteProductFlush(r)
    \/ \E r \in Reqs : DeleteProductCommit(r)
    \/ \E r \in Reqs : DeleteCategory(r, NewCategoryIds[1])
    \/ \E r \in Reqs : DeleteCategoryGet(r)
    \/ \E r \in Reqs : DeleteCategoryFlush(r)
    \/ \E r \in Reqs : DeleteCategoryCommit(r)

SpecCatalog == InitCategoryRoots /\ [][NextCatalog]_vars

\* the products that are created next to the one that is there
UpdatedProductData ==
    {[slug |-> "p2", sku |-> JsonStr("s1"), stock_quantity |-> 0],
     [slug |-> "p3", sku |-> JsonStr(""), stock_quantity |-> 0]}

\* products are created and updated in a root category
NextProductUpdate ==
    \/ \E r \in Reqs, data \in UpdatedProductData :
          CreateProduct(r, data, NewCategoryIds[1])
    \/ \E r \in Reqs : CreateProductSlug(r)
    \/ \E r \in Reqs : CreateProductSku(r)
    \/ \E r \in Reqs : CreateProductCreate(r)
    \/ \E r \in Reqs : CreateProductCommit(r)
    \/ \E r \in Reqs, product_id \in CatalogProductIds, data \in UpdateProductData :
          UpdateProduct(r, product_id, data)
    \/ \E r \in Reqs, product_id \in CatalogProductIds : UpdateProduct(r, product_id, <<>>)
    \/ \E r \in Reqs : UpdateProductCategory(r)
    \/ \E r \in Reqs : UpdateProductSlug(r)
    \/ \E r \in Reqs : UpdateProductSku(r)
    \/ \E r \in Reqs : UpdateProductUpdate(r)
    \/ \E r \in Reqs : UpdateProductFlush(r)
    \/ \E r \in Reqs : UpdateProductCommit(r)

SpecProductUpdate == InitCategoryRoots /\ [][NextProductUpdate]_vars

----------------------------------------------------------------------------
(* Atomic stock: concurrent atomic_update_stock calls on one product *)

NextAtomicStock ==
    \/ \E r \in Reqs, product_id \in AnyProductIds, quantity_delta \in QuantityDeltas :
          AtomicUpdateStock(r, product_id, quantity_delta)
    \/ \E r \in Reqs : AtomicUpdateStockWake(r)
    \/ \E r \in Reqs : AtomicUpdateStockCommit(r)

SpecAtomicStock == InitStock /\ [][NextAtomicStock]_vars

----------------------------------------------------------------------------
(* Properties of the sessions (SpecRotation, Spec) *)

InvalidCredentials(resp) ==
    /\ resp.status_code = HTTP_401_UNAUTHORIZED
    /\ resp.detail = "Incorrect email or password"
    /\ resp.body = None
    /\ resp.created = {}

SessionNotFound(resp) ==
    /\ resp.status_code = HTTP_401_UNAUTHORIZED
    /\ resp.detail = "Invalid refresh token"
    /\ resp.body = None
    /\ resp.created = {}

Responded(op) == response # None /\ response.op = op

\* the committed session records that are valid and belong to a user
ValidRecordsOf(user_id) ==
    {t \in SessionRecords(tokens) :
        t.user_id = user_id /\ ~t.is_revoked /\ ~t.is_deleted /\ t.expires_at > now}

\* C1: a refresh_tokens call with a refresh token that an earlier refresh_tokens
\* call has already rotated fails with 401 "Invalid refresh token" and creates
\* no session record; a refresh_tokens call that succeeds returns a refresh
\* token whose session record is valid when the call returns, unless the
\* token's lifetime has run out between its INSERT and the COMMIT.
C1_RotatedTokenIsRefused ==
    Responded("refresh") =>
        /\ response.obs.rotated => SessionNotFound(response)
        /\ (response.status_code = HTTP_200_OK /\ response.body.refresh_token.exp > now) =>
              hash_refresh_token(response.body.refresh_token) \in response.valid_after

\* a rotated token has been presented again and refused, while the token that
\* replaced it is valid
C1_Witness ==
    /\ Responded("refresh")
    /\ response.obs.rotated
    /\ response.status_code = HTTP_401_UNAUTHORIZED
    /\ \E t \in issued : t \notin DOMAIN rotCount /\ is_token_valid(NoTx, hash_refresh_token(t))

\* C13: a refresh_tokens call with a correctly signed, unexpired refresh token
\* whose `sub` claim is missing, is no string or is no well-formed user id
\* fails with 401 "Invalid refresh token" and changes no session record.
C13_BadSubIsTokenInvalid ==
    Responded("refresh") =>
        (response.obs.bad_sub =>
            /\ SessionNotFound(response)
            /\ response.flipped = {})

\* C14: a refresh_tokens call presenting a refresh token whose session record
\* is revoked and one presenting a refresh token whose session record has
\* expired get the same response, 401 "Invalid refresh token", and neither
\* creates a session record.
C14_SameErrorRevokedOrExpired ==
    Responded("refresh") =>
        /\ response.obs.revoked => SessionNotFound(response)
        /\ response.obs.expired => SessionNotFound(response)

\* a refresh token whose session record has expired without being revoked has
\* been refused, in a behaviour where another session record was revoked
C14_Witness ==
    /\ Responded("refresh")
    /\ response.obs.expired
    /\ ~response.obs.revoked
    /\ SessionNotFound(response)
    /\ \E t \in Committed(tokens) : t.is_revoked

\* C26: a refresh_tokens call that fails, for whatever reason, creates no
\* session record and changes no column of any session record; the record of
\* the successor of an already rotated token stays as it was when that token
\* is presented again.
C26_FailedRefreshChangesNothing ==
    (Responded("refresh") /\ response.status_code # HTTP_200_OK) =>
        /\ response.touched = {}
        /\ response.flipped = {}
        /\ response.created = {}
        /\ response.body = None

\* an already rotated token was presented again and refused, and the session
\* record of its successor is still valid
C26_Witness ==
    /\ Responded("refresh")
    /\ response.status_code = HTTP_401_UNAUTHORIZED
    /\ response.obs.rotated
    /\ nextId = 2
    /\ \E t \in ValidRecordsOf(response.obs.subject) : t.id = nextId

\* C29: a logout call changes no session record but the one created together
\* with the refresh token it presents: it creates none, and every other
\* record, of the same user or of another, keeps all its columns.
C29_LogoutTouchesOnlyItsRecord ==
    Responded("logout") =>
        /\ response.touched \subseteq {response.obs.session}
        /\ response.flipped \subseteq {response.obs.session}
        /\ response.created = {}

\* a logout has revoked its record while another record of the same user and
\* a record of another user are valid
C29_Witness ==
    /\ Responded("logout")
    /\ response.flipped = {response.obs.session}
    /\ \E t \in SessionRecords(tokens) :
          /\ t.id = response.obs.session
          /\ ValidRecordsOf(t.user_id) # {}
          /\ \E u \in DOMAIN users \ {t.user_id} : ValidRecordsOf(u) # {}

\* C30: the UPDATE of revoke_all_user_tokens(u), as logout_all_devices runs
\* it, revokes exactly the committed records of u that were neither revoked
\* nor deleted when it was called, expired ones included (when it had to wait
\* for a concurrent writer: those of them that writer has left non-revoked);
\* the count returned is the number of records revoked; no other record
\* changes and none is created.
C30_RevokeAllFlipsExactly ==
    Responded("logout_all") =>
        /\ response.flipped \subseteq response.obs.active
        /\ ~response.obs.waited => response.flipped = response.obs.active
        /\ response.touched = response.flipped
        /\ response.created = {}
        /\ response.body.count = Cardinality(response.flipped)

\* revoke_all_user_tokens has revoked an expired record of its user while a
\* record of another user has stayed non-revoked
C30_Witness ==
    /\ Responded("logout_all")
    /\ \E t \in SessionRecords(tokens) :
          /\ t.id \in response.flipped
          /\ t.expires_at <= now
          /\ \E s \in SessionRecords(tokens) : s.user_id # t.user_id /\ ~s.is_revoked

\* C20: a logout call succeeds exactly when it has flipped one session record
\* to revoked, a record with the fingerprint of its token that was neither
\* revoked nor deleted; a logout call with a token of no record, and a logout
\* call with a token whose record is revoked already (a second logout), fail
\* with 401 "Invalid refresh token" and change no record.
C20_LogoutFlipsOneOrFails ==
    Responded("logout") =>
        /\ response.status_code = HTTP_200_OK <=> Cardinality(response.flipped) = 1
        /\ response.status_code = HTTP_200_OK => response.flipped = response.obs.live
        /\ response.status_code # HTTP_200_OK =>
              /\ SessionNotFound(response)
              /\ response.flipped = {}
        /\ ~response.obs.known => SessionNotFound(response)
        /\ response.obs.revoked => SessionNotFound(response)
        /\ response.created = {}
        /\ response.registered = {}

\* a second logout with a token has failed: its record was revoked, and by no
\* rotation
C20_Witness ==
    /\ Responded("logout")
    /\ response.obs.known
    /\ response.obs.revoked
    /\ ~response.obs.rotated
    /\ SessionNotFound(response)

\* C2: no refresh token is rotated by more than one refresh_tokens call: of the
\* calls presenting the same refresh token at most one issues a new pair.
C2_AtMostOneRotation == \A t \in DOMAIN rotCount : rotCount[t] <= 1

\* C8: logout_all_devices always succeeds; the count it returns is the number
\* of session records it has revoked, which is the number N of non-revoked
\* session records of the user when its UPDATE did not have to wait for a
\* concurrent writer (N = 0 included) and at most N otherwise; and from its
\* return on no session record of the user that existed when it ran is valid.
C8_LogoutAllRevokesAll ==
    /\ Responded("logout_all") =>
          /\ response.status_code = HTTP_200_OK
          /\ response.body.count = Cardinality(response.flipped)
          /\ response.flipped \subseteq response.obs.active
          /\ ~response.obs.waited => response.flipped = response.obs.active
    /\ \A t \in Committed(tokens) :
          t.id \in loggedOutAll[t.user_id] => ~is_token_valid(NoTx, t.token_hash)

\* a user logged in on two devices has logged out from both with one call
C8_Witness ==
    /\ Responded("logout_all")
    /\ response.body.count = 2
    /\ \E u \in UserIds : Cardinality(loggedOutAll[u]) >= 2

\* C10: a login call whose email matches no non-deleted user and a login call
\* whose password is not the user's get the same response, 401 "Incorrect email
\* or password", and neither creates a session record.
C10_SameErrorForBothCases ==
    Responded("login") =>
        /\ response.obs.no_user => InvalidCredentials(response)
        /\ response.obs.bad_password => InvalidCredentials(response)

\* a login with the password of another account has been refused
C10_Witness ==
    /\ Responded("login")
    /\ response.obs.bad_password
    /\ ~response.obs.no_user
    /\ InvalidCredentials(response)

----------------------------------------------------------------------------
(* Properties of the token functions (SpecCodec) *)

\* the secret a decoder verifies the signature with
SecretOf(op) == IF op = "decode_access_token" THEN SECRET_KEY ELSE REFRESH_TOKEN_SECRET
Decoders == {"decode_access_token", "decode_refresh_token"}

\* C22: decode_refresh_token raises on every token that create_access_token
\* has produced, and decode_access_token raises on every token that
\* create_refresh_token has produced.
C22_NoCrossUse ==
    (response # None /\ response.op \in Decoders /\ ~response.forged) =>
        /\ (response.op = "decode_refresh_token" /\ response.token.type = "access")
              => ~response.accepted
        /\ (response.op = "decode_access_token" /\ response.token.type = "refresh")
              => ~response.accepted

\* decode_access_token has refused a refresh token that create_refresh_token
\* produced and that has not expired
C22_Witness ==
    /\ Responded("decode_access_token")
    /\ ~response.forged
    /\ response.token.type = "refresh"
    /\ response.token.exp > now
    /\ ~response.accepted

\* C23 as stated: a decoder raises on a token that carries its signature and
\* has not expired when the token's issuer claim is absent or is not the
\* configured issuer.
C23_AsStated ==
    (response # None /\ response.op \in Decoders
       /\ response.token.key = SecretOf(response.op)
       /\ response.token.exp > now
       /\ response.token.iss # JsonStr(TOKEN_ISSUER)) => ~response.accepted

\* C23: the decoders do not look at the issuer claim: a token that carries
\* the decoder's signature, has not expired, was not issued in the future and
\* whose `sub` is a string or absent is accepted, whether its issuer claim is
\* the configured issuer, another issuer, or absent.
C23_IssuerNotChecked ==
    (response # None /\ response.op \in Decoders
       /\ response.token.key = SecretOf(response.op)
       /\ response.token.alg = ALGORITHM
       /\ response.token.exp > now
       /\ response.token.iat <= now
       /\ (response.token.sub = Missing \/ IsJsonStr(response.token.sub)))
    => response.accepted

\* decode_access_token has accepted a token without an issuer claim
C23_Witness ==
    /\ Responded("decode_access_token")
    /\ response.token.iss = Missing
    /\ response.accepted

----------------------------------------------------------------------------
(* Properties of the life of a session record (SpecExpiry) *)

\* a committed session record is valid
IsValidRecord(t) == ~t.is_revoked /\ ~t.is_deleted /\ t.expires_at > now

\* C28: in every step a committed session record either keeps its
\* token_hash, user_id, expires_at and is_deleted and does not go from revoked
\* to non-revoked, or it is an expired record that the sweep deletes; the
\* clock does not go back; so a record that is revoked or expired is not
\* valid in the next state either.
C28_EndStatesAreTerminal ==
    [][/\ now' >= now
       /\ \A t \in SessionRecords(tokens) :
            \/ /\ t.id \notin CommittedIds(tokens')
               /\ t.expires_at < now
               /\ response'.op = "delete_expired_tokens"
            \/ \E s \in SessionRecords(tokens') :
                  /\ s.id = t.id
                  /\ s.token_hash = t.token_hash
                  /\ s.user_id = t.user_id
                  /\ s.expires_at = t.expires_at
                  /\ s.is_deleted = t.is_deleted
                  /\ (t.is_revoked => s.is_revoked)
                  /\ (~IsValidRecord(t) => ~IsValidRecord(s)')]_vars

\* the sweep has deleted an expired record and has kept a revoked one
C28_Witness ==
    /\ Responded("delete_expired_tokens")
    /\ response.result > 0
    /\ \E t \in response.kept : t.is_revoked

\* C24: a logout request without a bearer access token is answered with 403
\* and revokes no session record, whatever refresh token it carries.
C24_LogoutRequiresBearer ==
    (Responded("logout") /\ response.obs.credentials = None) =>
        /\ response.status_code = HTTP_403_FORBIDDEN
        /\ response.flipped = {}

----------------------------------------------------------------------------
(* Properties of the repository of session records (SpecRepository) *)

\* C31: is_token_valid(h) returns true exactly when a committed session record
\* with token_hash = h is not revoked, not soft-deleted and expires strictly
\* after now; for a hash of no record it returns false.
C31_IsTokenValidIff ==
    Responded("is_token_valid") =>
        (response.result <=>
            \E t \in SessionRecords(tokens) :
                /\ t.token_hash = response.token_hash
                /\ ~t.is_revoked
                /\ ~t.is_deleted
                /\ now < t.expires_at)

\* is_token_valid has answered false for a record that is neither revoked nor
\* soft-deleted at the very instant it expires
C31_Witness ==
    /\ Responded("is_token_valid")
    /\ ~response.result
    /\ \E t \in SessionRecords(tokens) :
          /\ t.token_hash = response.token_hash
          /\ ~t.is_revoked /\ ~t.is_deleted
          /\ t.expires_at = now

\* C32: delete_expired_tokens removes exactly the session records that were
\* committed with expires_at before now when its DELETE ran, revoked and
\* soft-deleted ones included (those of them that are still there when the
\* DELETE had to wait for a concurrent writer), and returns their number; every
\* other record stays as it was, so no valid record is removed and no revoked
\* record changes.
C32_SweepRemovesExactlyExpired ==
    Responded("delete_expired_tokens") =>
        LET expired == {t.id : t \in {x \in response.obs.before :
                                          x.expires_at < response.obs.at}}
            deleted == {t.id : t \in response.deleted}
        IN  /\ deleted \subseteq expired
            /\ ~response.obs.waited => deleted = expired
            /\ response.result = Cardinality(deleted)
            /\ response.changed = {}
            /\ \A t \in response.deleted : ~IsValidRecord(t)

\* the sweep has removed a soft-deleted record and a revoked record, and has
\* kept a record that has not expired
C32_Witness ==
    /\ Responded("delete_expired_tokens")
    /\ \E t \in response.deleted : t.is_deleted
    /\ \E t \in response.deleted : t.is_revoked
    /\ \E t \in response.kept : t.expires_at > now
    /\ \E t \in SessionRecords(tokens) : t.expires_at > now

----------------------------------------------------------------------------
(* Properties of access tokens (SpecAccess) *)

\* C34: once the user of an access token is soft-deleted (delete_user has
\* committed), get_current_user rejects the token with 401, also while the
\* token has not expired, and returns no user.
C34_DeletedUserIsRejected ==
    (Responded("get_current_user") /\ response.obs.owner_deleted) =>
        /\ response.status_code = HTTP_401_UNAUTHORIZED
        /\ response.body = None

\* an issued access token that has not expired was rejected with 401
\* "User not found" after delete_user of its user
C34_Witness ==
    /\ Responded("get_current_user")
    /\ response.obs.access
    /\ response.obs.unexpired
    /\ response.obs.owner_deleted
    /\ response.status_code = HTTP_401_UNAUTHORIZED
    /\ response.detail = "User not found"

\* C35: get_current_user accepts every issued access token that has not
\* expired and whose user is stored and not soft-deleted, whether or not the
\* session record issued with it is revoked (logout, logout_all_devices,
\* change_password); from its expiry on the token is rejected with 401.
C35_RevocationKeepsAccessTokens ==
    (Responded("get_current_user") /\ response.obs.access) =>
        /\ (response.obs.unexpired /\ response.obs.owner_there) =>
              /\ response.status_code = HTTP_200_OK
              /\ response.body = response.obs.owner
        /\ ~response.obs.unexpired =>
              /\ response.status_code = HTTP_401_UNAUTHORIZED
              /\ response.detail = "Could not validate credentials"

\* an access token was accepted although its session record is revoked and
\* logout_all_devices and change_password of its user have completed
C35_Witness ==
    /\ Responded("get_current_user")
    /\ response.status_code = HTTP_200_OK
    /\ response.obs.access
    /\ response.obs.session_revoked
    /\ response.obs.logged_out_all
    /\ response.obs.password_changed

\* an access token was accepted after logout had revoked its session record
C35_WitnessLogout ==
    /\ Responded("get_current_user")
    /\ response.status_code = HTTP_200_OK
    /\ response.obs.session_revoked
    /\ ~response.obs.logged_out_all
    /\ ~response.obs.password_changed

\* the same access token is rejected once it has expired
C35_WitnessExpired ==
    /\ Responded("get_current_user")
    /\ response.obs.access
    /\ response.obs.owner_there
    /\ ~response.obs.unexpired
    /\ response.status_code = HTTP_401_UNAUTHORIZED

----------------------------------------------------------------------------
(* Properties of issuing (SpecIssuing) *)

\* the token pair of a successful register, login or refresh_tokens response
IssuedPair(resp) == IF resp.op \in {"register", "login"} THEN resp.body.tokens ELSE resp.body
\* the user a successful register, login or refresh_tokens response is for
IssuedFor(resp) ==
    IF resp.op = "register" THEN resp.body.user.id
    ELSE IF resp.op = "login" THEN resp.obs.user
    ELSE resp.obs.subject

\* C21: a register, login or refresh_tokens call that succeeds creates exactly
\* one session record; that record is valid, holds the fingerprint of the
\* refresh token returned and belongs to the user who registered, logged in
\* or is the subject of the token presented; a login changes no session
\* record that existed before it.
C21_OneNewValidRecord ==
    (response # None /\ response.op \in {"register", "login", "refresh"}
       /\ response.status_code \in {HTTP_200_OK, HTTP_201_CREATED}) =>
        /\ Cardinality(response.created) = 1
        /\ \A t \in SessionRecords(tokens) : t.id \in response.created =>
              /\ t.token_hash = hash_refresh_token(IssuedPair(response).refresh_token)
              /\ t.user_id = IssuedFor(response)
              /\ t \in ValidRecordsOf(IssuedFor(response))
        /\ response.op = "login" => response.touched = {} /\ response.flipped = {}

\* a user's second login has answered and the user holds two valid session
\* records, the one of the first login and the one of the second
C21_Witness ==
    /\ Responded("login")
    /\ response.status_code = HTTP_200_OK
    /\ rotCount = <<>>
    /\ Cardinality(ValidRecordsOf(response.obs.user)) = 2
    /\ response.created \subseteq {t.id : t \in ValidRecordsOf(response.obs.user)}

----------------------------------------------------------------------------
(* Properties of the registration (SpecRegistration) *)

\* the non-deleted users with an email
HoldersOf(email) == {u \in DOMAIN users : users[u].email = email /\ ~users[u].is_deleted}

\* C15: a register call with an email that a non-deleted user has fails with
\* 409 and creates neither a user nor a session record.
C15_EmailTakenIsConflict ==
    Responded("register") =>
        (response.obs.email_taken =>
            /\ response.status_code = HTTP_409_CONFLICT
            /\ response.registered = {}
            /\ response.created = {})

\* C16: at most one non-deleted user has a given email, also when two
\* register calls with the same email run concurrently.
C16_EmailUnique == \A email \in Emails : Cardinality(HoldersOf(email)) <= 1

\* a register call that found the email free has lost it to a concurrent
\* register call and created nothing
C16_Witness ==
    /\ Responded("register")
    /\ ~response.obs.email_taken
    /\ response.obs.raced
    /\ response.status_code = HTTP_409_CONFLICT
    /\ response.registered = {}

\* C17: a register call with the email of a soft-deleted user, an email that
\* no non-deleted user has and no concurrent call takes, succeeds and creates
\* a non-deleted user with that email.
C17_DeletedEmailIsFree ==
    Responded("register") =>
        ((/\ response.obs.deleted_holder
          /\ ~response.obs.email_taken
          /\ ~response.obs.raced
          /\ ~response.obs.too_long) =>
            /\ response.status_code = HTTP_201_CREATED
            /\ \E u \in response.registered : ~users[u].is_deleted)

\* C18: a register call that succeeds creates exactly one user, with role
\* CUSTOMER, is_active = true and is_verified = false; a login call with the
\* email and the password of a user that has registered succeeds, and one
\* with its email and another password fails with 401 "Incorrect email or
\* password".
C18_RegisterThenLogin ==
    /\ (Responded("register") /\ response.status_code = HTTP_201_CREATED) =>
          /\ Cardinality(response.registered) = 1
          /\ \A u \in response.registered :
                /\ response.body.user = UserResponse(u, users[u])
                /\ users[u].role = CUSTOMER
                /\ users[u].is_active
                /\ ~users[u].is_verified
                /\ ~users[u].is_deleted
    /\ (Responded("login") /\ response.obs.registered) =>
          /\ ~response.obs.bad_password =>
                /\ response.status_code = HTTP_200_OK
                /\ Cardinality(response.created) = 1
          /\ response.obs.bad_password => InvalidCredentials(response)

\* a user that has registered has logged in
C18_Witness ==
    /\ Responded("login")
    /\ response.obs.registered
    /\ response.status_code = HTTP_200_OK
    /\ \E u \in DOMAIN users \ UserIds : users[u].is_active /\ ~users[u].is_verified

----------------------------------------------------------------------------
(* Properties of the activation (SpecActivation) *)

AccountInactive(resp) ==
    /\ resp.status_code = HTTP_403_FORBIDDEN
    /\ resp.detail = "Account is inactive"
    /\ resp.body = None
    /\ resp.created = {}

\* C11: a refresh_tokens call presenting a refresh token whose session record
\* is valid while the user it belongs to has is_active = false fails with 403
\* "Account is inactive" and creates no session record.
C11_InactiveOwnerIsRefused ==
    Responded("refresh") =>
        ((response.obs.valid_record /\ response.obs.owner_inactive) =>
            AccountInactive(response))

\* C19: a login call with the email and the password of a user that has
\* is_active = false fails with 403 "Account is inactive" and creates no
\* session record; with the email of that user and another password it
\* fails with 401 "Incorrect email or password".
C19_InactiveAfterCredentials ==
    Responded("login") =>
        /\ (response.obs.inactive /\ ~response.obs.bad_password) => AccountInactive(response)
        /\ (response.obs.inactive /\ response.obs.bad_password) => InvalidCredentials(response)

\* a user that was deactivated after logging in has been refused with the
\* right password
C19_Witness ==
    /\ Responded("login")
    /\ response.obs.inactive
    /\ ~response.obs.bad_password
    /\ AccountInactive(response)
    /\ \E t \in Committed(tokens) : ~users[t.user_id].is_active

----------------------------------------------------------------------------
(* Properties of the accounts (SpecAccount) *)

\* C6: no committed session record that is valid (not revoked, not deleted,
\* unexpired) belongs to a soft-deleted user.
C6_NoValidSessionOfDeletedUser ==
    \A t \in Committed(tokens) :
        (~t.is_revoked /\ ~t.is_deleted /\ t.expires_at > now) => ~users[t.user_id].is_deleted

\* C7 as stated: after a change_password of a user has succeeded, a login with
\* the old password fails with 401 "Incorrect email or password", a login with
\* the new password succeeds, and a refresh_tokens call with a refresh token
\* issued to the user before the change fails.
C7_AsStated ==
    /\ Responded("login") =>
          /\ response.obs.changed_old => InvalidCredentials(response)
          /\ response.obs.changed_new => response.status_code = HTTP_200_OK
    /\ Responded("refresh") =>
          (response.obs.pre_change => response.status_code # HTTP_200_OK)

\* C7 amended: after a change_password of a user from old to a different new
\* password has succeeded, and while the user is not soft-deleted and no later
\* change_password has succeeded, a login with the old password fails with 401
\* "Incorrect email or password", a login with the new password succeeds when
\* the user is active and fails with 403 "Account is inactive" otherwise, and a
\* refresh_tokens call with a refresh token issued to the user before the
\* change fails with 401 and creates no session record.
C7_AfterChangePassword ==
    /\ Responded("login") =>
          /\ (response.obs.changed_old /\ ~response.obs.changed_new) =>
                InvalidCredentials(response)
          /\ (response.obs.changed_new /\ ~response.obs.inactive) =>
                response.status_code = HTTP_200_OK
          /\ (response.obs.changed_new /\ response.obs.inactive) =>
                /\ response.status_code = HTTP_403_FORBIDDEN
                /\ response.detail = "Account is inactive"
    /\ Responded("refresh") =>
          (response.obs.pre_change =>
              /\ response.status_code = HTTP_401_UNAUTHORIZED
              /\ response.created = {})

\* after a change of password that revoked a session, a login with the new
\* password has succeeded
C7_Witness ==
    /\ Responded("login")
    /\ response.obs.changed_new
    /\ ~response.obs.changed_old
    /\ response.status_code = HTTP_200_OK
    /\ \E t \in Committed(tokens) :
          /\ pwHist[t.user_id] # None
          /\ t.id \in pwHist[t.user_id].pre
          /\ t.is_revoked

\* C12: a refresh_tokens call presenting a refresh token whose session record
\* is valid while the user it belongs to is soft-deleted fails with 404 "User
\* not found" and creates no session record.
C12_DeletedOwnerIsRefused ==
    Responded("refresh") =>
        ((response.obs.valid_record /\ response.obs.owner_deleted) =>
            /\ response.status_code = HTTP_404_NOT_FOUND
            /\ response.detail = "User not found"
            /\ response.body = None
            /\ response.created = {})

\* C9: a login call with the email and the password of a soft-deleted user
\* fails with 401 "Incorrect email or password" and creates no session record.
C9_DeletedUserCannotLogin ==
    Responded("login") => (response.obs.deleted_owner => InvalidCredentials(response))

\* a deleted user has tried to log in with the right password
C9_Witness ==
    /\ Responded("login")
    /\ response.obs.deleted_owner
    /\ response.status_code = HTTP_401_UNAUTHORIZED

\* C27: a request that is answered with an error leaves the committed tables
\* as they were: it has created, revoked and changed no session record and
\* has created and changed no users row, also when it had written before it
\* raised.
C27_ErrorChangesNothing ==
    (response # None /\ response.status_code >= HTTP_400_BAD_REQUEST) =>
        /\ response.created = {}
        /\ response.flipped = {}
        /\ response.touched = {}
        /\ response.registered = {}
        /\ response.changed_users = {}

\* delete_user took its 500 path after revoke_all_user_tokens had revoked a
\* session record, and that revocation was rolled back
C27_Witness ==
    /\ Responded("delete_user")
    /\ response.status_code = HTTP_500_INTERNAL_SERVER_ERROR
    /\ response.detail = "Failed to delete user"
    /\ response.undone # {}

\* a refusal of change_password names its cause and changes nothing
ChangePasswordRefusals ==
    (Responded("change_password")
       /\ response.status_code \in {HTTP_404_NOT_FOUND, HTTP_401_UNAUTHORIZED}) =>
        LET gone == response.obs.absent \/ response.obs.soft_deleted
        IN  /\ gone <=> (response.status_code = HTTP_404_NOT_FOUND
                           /\ response.detail = "User not found")
            /\ (~gone /\ response.obs.bad_old)
                  <=> (response.status_code = HTTP_401_UNAUTHORIZED
                         /\ response.detail = "Incorrect old password")
            /\ response.changed_users = {}
            /\ response.touched = {}
            /\ response.flipped = {}

\* a change_password that goes on to write was called on a stored user that
\* is not soft-deleted, with the password of its hash
ChangePasswordProceeds ==
    \A r \in Reqs :
        (pc[r] = "idle" /\ pc'[r] = "change_password_get") =>
            LET obs == ChangePasswordObs(ctx'[r].user_id, req'[r].old_password)
            IN  ~obs.absent /\ ~obs.soft_deleted /\ ~obs.bad_old

\* C33: change_password answers 404 "User not found" exactly when the user is
\* absent or soft-deleted, and 401 "Incorrect old password" exactly when the
\* user is there and old_password does not verify; neither answer changes a
\* column of a user or a session record, and no other call is refused so.
C33_ChangePasswordFailures == []ChangePasswordRefusals /\ [][ChangePasswordProceeds]_vars

\* change_password of a soft-deleted user was refused with 404, whatever the
\* old password
C33_Witness ==
    /\ Responded("change_password")
    /\ response.status_code = HTTP_404_NOT_FOUND
    /\ response.obs.soft_deleted
    /\ response.obs.bad_old

\* change_password with a wrong old password was refused with 401 while the
\* user had a valid session record
C33_WitnessCredentials ==
    /\ Responded("change_password")
    /\ response.status_code = HTTP_401_UNAUTHORIZED
    /\ ValidRecordsOf(response.obs.user_id) # {}

\* C25: once change_password of a user has completed (with a new password
\* that differs from the old one), a login of that user that verified the old
\* password leaves no valid session record, also when the login verified the
\* password before the change and inserted its record after it.
C25_NoSessionFromOldPassword ==
    (Responded("login") /\ response.status_code = HTTP_200_OK
       /\ pwHist[response.obs.user] # None
       /\ pwHist[response.obs.user].old_password # pwHist[response.obs.user].new_password
       /\ response.obs.verified = pwHist[response.obs.user].old_password) =>
        \A t \in ValidRecordsOf(response.obs.user) : t.id \notin response.created

----------------------------------------------------------------------------
(* Properties of the stock (SpecStock) *)

Quiet == \A r \in Reqs : pc[r] = "idle"

RECURSIVE SumOfSuccessful(_)
SumOfSuccessful(log) ==
    IF log = <<>> THEN 0
    ELSE (IF Head(log).status_code = HTTP_200_OK THEN Head(log).quantity_delta ELSE 0)
         + SumOfSuccessful(Tail(log))

\* C3: when the only calls on a product whose stock_quantity was 10 are two
\* decrease_stock calls of 7, one of them has succeeded and the other has
\* failed with 400 (insufficient stock).
C3_ExactlyOneSucceeds ==
    ( /\ stock0 = 10
      /\ \A p \in ProductIds : ~products[p].is_deleted
      /\ Quiet
      /\ Len(calls) = 2
      /\ \A i \in 1..2 : /\ calls[i].op = "decrease_stock"
                         /\ calls[i].product_id \in ProductIds
                         /\ calls[i].quantity_delta = -7 )
    => \E i, j \in 1..2 :
          /\ i # j
          /\ calls[i].status_code = HTTP_200_OK
          /\ calls[j].status_code = HTTP_400_BAD_REQUEST

\* C4: when no adjustment is in progress the stock_quantity of the product is
\* its initial value plus the sum of the deltas of the calls that succeeded.
C4_NoLostUpdate ==
    Quiet => \A p \in ProductIds : products[p].stock_quantity = stock0 + SumOfSuccessful(calls)

\* C5: the stock_quantity of every product, committed or written by an open
\* transaction, is never negative.
C5_StockNeverNegative ==
    \A p \in ProductIds :
        /\ products[p].stock_quantity >= 0
        /\ products[p].pending.set => products[p].pending.stock_quantity >= 0

\* a decrease has emptied the stock and a later decrease has been refused
C5_Witness ==
    /\ \A p \in ProductIds : products[p].stock_quantity = 0
    /\ \E i, j \in 1..Len(calls) :
          /\ i < j
          /\ calls[i].status_code = HTTP_200_OK
          /\ calls[i].quantity_delta < 0
          /\ calls[j].status_code = HTTP_400_BAD_REQUEST
          /\ calls[j].quantity_delta < 0
          /\ calls[j].product_id \in ProductIds

----------------------------------------------------------------------------
(* Properties of atomic_update_stock (SpecAtomicStock) *)

RECURSIVE SumOfReturned(_)
SumOfReturned(log) ==
    IF log = <<>> THEN 0
    ELSE (IF Head(log).returned # None THEN Head(log).quantity_delta ELSE 0)
         + SumOfReturned(Tail(log))

\* C36: atomic_update_stock returns a product and writes stock_quantity + d
\* exactly when the product is stored, not soft-deleted and stock_quantity +
\* d >= 0, and otherwise returns None and writes nothing; in every
\* interleaving no stock_quantity, committed or pending, is negative, and
\* once the calls have committed the stock_quantity is the initial one plus
\* the deltas of the calls that returned a product.
C36_AtomicUpdateStock ==
    /\ Responded("atomic_update_stock") =>
          LET o == response.obs
              applies == ~o.missing /\ ~o.soft_deleted
                           /\ o.stock_quantity + o.quantity_delta >= 0
          IN  /\ applies <=> response.returned # None
              /\ applies =>
                    /\ response.returned.stock_quantity = o.stock_quantity + o.quantity_delta
                    /\ products[o.product_id].pending.set
                    /\ products[o.product_id].pending.stock_quantity
                          = o.stock_quantity + o.quantity_delta
              /\ ~applies => ~response.changed
    /\ \A p \in ProductIds :
          /\ products[p].stock_quantity >= 0
          /\ products[p].pending.set => products[p].pending.stock_quantity >= 0
    /\ Quiet => \A p \in ProductIds : products[p].stock_quantity = stock0 + SumOfReturned(calls)

\* of two calls with delta -7 on a product with stock_quantity 10 one has
\* returned the product and the other None, and the stock_quantity is 3
C36_Witness ==
    /\ Quiet
    /\ stock0 = 10
    /\ Len(calls) = 2
    /\ \A i \in 1..2 : calls[i].product_id \in ProductIds /\ calls[i].quantity_delta = -7
    /\ \E i, j \in 1..2 : calls[i].returned # None /\ calls[j].returned = None
    /\ \A p \in ProductIds : products[p].stock_quantity = 3

\* a call waits for the writer of the row
C36_WitnessWait == \E r \in Reqs : pc[r] = "atomic_update_stock_wait"

----------------------------------------------------------------------------
(* Properties of the category hierarchy (SpecCategory, SpecCategoryFair) *)

\* no category is among its own ancestors
Acyclic(table) == \A c \in DOMAIN table : c \notin Ancestors(table, c)

\* update_category refuses a category as its own parent and a new parent that
\* is a descendant of the category, and a refusal writes nothing
CategoryRejections ==
    Responded("update_category") =>
        /\ response.status_code >= HTTP_400_BAD_REQUEST => ~response.changed
        /\ response.obs.self_parent => response.status_code >= HTTP_400_BAD_REQUEST
        /\ (response.obs.self_parent /\ response.status_code = HTTP_400_BAD_REQUEST) =>
              response.message = CategorySelfParentError(response.obs.category_id).message
        /\ response.message =
              CircularCategoryDependencyError(response.obs.category_id,
                                              response.obs.category_id).message =>
              /\ response.status_code = HTTP_400_BAD_REQUEST
              /\ ~response.obs.self_parent

\* C38: in every reachable state the parent relation of the categories has
\* no cycle, update_category answers a self-parent request and a request
\* whose new parent descends from the category with a 400, and a refused
\* request leaves the hierarchy as it was.
C38_NoCycle ==
    /\ Acyclic(categories)
    /\ CategoryRejections

\* C39: every ancestor walk of _creates_circular_dependency that has begun
\* comes to an end, in every hierarchy the service operations produce.
C39_WalkTerminates ==
    \A r \in Reqs : (pc[r] = "update_category_walk") ~> (pc[r] # "update_category_walk")

----------------------------------------------------------------------------
(* Properties of the failing stock adjustments (SpecStock) *)

StockOps == {"update_stock", "increase_stock", "decrease_stock"}

\* the answers of the stock adjustments that fail: nothing is written and the
\* error is the one of the first check that does not pass
StockFailuresArePrecise ==
    (response # None /\ response.op \in StockOps) =>
        LET o == response.obs
            quantity == IF response.op = "decrease_stock"
                        THEN -o.quantity_delta ELSE o.quantity_delta
            invalid == response.op # "update_stock" /\ quantity <= 0
            gone == o.missing \/ o.soft_deleted
            negative == ~gone /\ o.stock_quantity + o.quantity_delta < 0
        IN  /\ response.status_code >= HTTP_400_BAD_REQUEST =>
                  /\ ~response.changed
                  /\ invalid \/ gone \/ negative
            /\ invalid => /\ response.status_code = HTTP_400_BAD_REQUEST
                          /\ response.detail = QuantityMustBePositive.detail
            /\ (~invalid /\ gone) =>
                  /\ response.status_code = HTTP_404_NOT_FOUND
                  /\ response.detail = ProductNotFound(o.product_id).detail

\* C37: a failing stock adjustment changes no stock_quantity; quantity <= 0
\* is answered 400 "Quantity must be positive", a missing or soft-deleted
\* product 404, and an adjustment whose delta would take the committed
\* stock_quantity below zero is answered 400 "Insufficient stock".
C37_FailuresArePrecise ==
    /\ StockFailuresArePrecise
    /\ (response # None /\ response.op \in StockOps) =>
          LET o == response.obs
              quantity == IF response.op = "decrease_stock"
                          THEN -o.quantity_delta ELSE o.quantity_delta
              invalid == response.op # "update_stock" /\ quantity <= 0
              gone == o.missing \/ o.soft_deleted
          IN  (~invalid /\ ~gone /\ o.stock_quantity + o.quantity_delta < 0) =>
                  /\ response.status_code = HTTP_400_BAD_REQUEST
                  /\ response.detail =
                        InsufficientStock(o.stock_quantity, abs(o.quantity_delta)).detail

====
